---- MODULE Spec2Model ----
(***************************************************************************)
(* next-supabase-clerk-setup: the `install` and `uninstall` commands of    *)
(* src/src/cli.ts, the detector of src/src/utils/detection.ts, the setup   *)
(* writers of src/src/setup/{supabase,clerk}.ts (and webhooks), the        *)
(* installer of src/src/utils/installer.ts and the uninstallers, run over  *)
(* a model of one project directory.                                       *)
(*                                                                         *)
(* A path is the sequence of its segments, so that "is inside directory"   *)
(* is the prefix relation.  The content of a file is a record of who wrote *)
(* it and of the marker substrings it contains (what String.includes is    *)
(* asked about).  .env.local is the sequence of the pieces that            *)
(* text.split("\n") yields; package.json is missing, malformed, or a set   *)
(* of dependency names.                                                    *)
(***************************************************************************)
EXTENDS Integers, Sequences, FiniteSets, TLC

VARIABLES
    fs,     \* the project directory: [files, dirs, env, pkg]
    opts,   \* the flags of the command line the user runs
    world,  \* how the external collaborators answer (npm, supabase CLI, disk)
    hist    \* one record per finished command, oldest first

vars == <<fs, opts, world, hist>>

(***************************************************************************)
(* Bounds of the model.                                                    *)
(***************************************************************************)
MaxRuns == 2        \* commands run in one behaviour
MaxPre == 1         \* own files in the project before the first run
MaxEnvLines == 2    \* own lines in .env.local before the first run

(***************************************************************************)
(* Paths.                                                                  *)
(***************************************************************************)
IsPrefix(p, q) == /\ Len(p) <= Len(q)
                  /\ \A i \in 1..Len(p) : p[i] = q[i]

Parents(p) == { SubSeq(p, 1, n) : n \in 1..(Len(p) - 1) }

EnvPath == <<".env.local">>
PkgPath == <<"package.json">>

SbClient      == <<"lib", "supabase", "client.ts">>
SbServer      == <<"lib", "supabase", "server.ts">>
SbMiddleware  == <<"lib", "supabase", "middleware.ts">>
SbUtils       == <<"utils", "supabase.ts">>
SbTypes       == <<"types", "supabase.ts">>
SbMigration   == <<"supabase", "migrations", "001_initial_schema.sql">>
SbConfig      == <<"supabase", "config.toml">>
SbEnhancedSql == <<"supabase", "enhanced-setup.sql">>
SbSeed        == <<"supabase", "seed.sql">>
AppProfiles   == <<"app", "api", "profiles", "route.ts">>
PagesProfiles == <<"pages", "api", "profiles", "index.ts">>
ProfileCmp    == <<"components", "Profile.tsx">>
ConnTestCmp   == <<"components", "ConnectionTest.tsx">>
ConnTestPage  == <<"app", "connection-test", "page.tsx">>

ClerkConfig   == <<"lib", "clerk.tsx">>
ClerkLegacy   == <<"lib", "clerk.ts">>
RootMiddleware == <<"middleware.ts">>
AppSignIn     == <<"app", "sign-in", "[[...sign-in]]", "page.tsx">>
AppSignUp     == <<"app", "sign-up", "[[...sign-up]]", "page.tsx">>
PagesSignIn   == <<"pages", "sign-in", "[[...sign-in]].tsx">>
PagesSignUp   == <<"pages", "sign-up", "[[...sign-up]].tsx">>
AppLayout     == <<"app", "layout.tsx">>
PagesApp      == <<"pages", "_app.tsx">>
DashboardCmp  == <<"components", "Dashboard.tsx">>
ProtectedRoute == <<"app", "api", "protected", "route.ts">>

WebhookSb     == <<"app", "api", "webhooks", "supabase", "route.ts">>
WebhookClerk  == <<"app", "api", "webhooks", "clerk", "route.ts">>
WebhookUtils  == <<"lib", "webhook-utils.ts">>

NoPath == <<>>

(***************************************************************************)
(* File contents: who wrote the text and which of the substrings that the  *)
(* program searches for occur in it.                                       *)
(***************************************************************************)
\* needle is a substring of the marker text m
Within(needle, m) ==
    \/ needle = m
    \/ needle = "supabase"      /\ m = "@supabase/"
    \/ needle = "@clerk/"       /\ m = "@clerk/nextjs/server"
    \/ needle = "ClerkProvider" /\ m = "ClerkProviderWrapper"

\* String.prototype.includes on a file's text.  imp counts the lines
\* "import { ClerkProviderWrapper } from '@/lib/clerk'" of a layout file, wrap
\* the <ClerkProviderWrapper> elements around its {children} or <Component />.
Includes(content, needle) ==
    \/ \E m \in content.marks : Within(needle, m)
    \/ /\ needle \in {"ClerkProvider", "ClerkProviderWrapper"}
       /\ (content.imp > 0 \/ content.wrap > 0)
    \/ /\ needle = "from '@/lib/clerk'"
       /\ content.imp > 0

Tmpl(marks) == [origin |-> "tmpl", marks |-> marks, imp |-> 0, wrap |-> 0]
UserText(marks) == [origin |-> "user", marks |-> marks, imp |-> 0, wrap |-> 0]

\* a file that exists and that fs.readFile cannot read (EACCES)
Unreadable == [origin |-> "unreadable", marks |-> {}, imp |-> 0, wrap |-> 0]

(***************************************************************************)
(* .env.local as text.  A text is the non-empty sequence of pieces that    *)
(* split("\n") yields: "A=1\n" is <<A=1, "">>, the empty text is <<"">>.   *)
(* A piece is blank, a comment or a KEY=value line; `pre` says that other  *)
(* characters precede the key on the line (MY_KEY=..., or a key that is    *)
(* commented out), `key` is the variable name the piece contains.          *)
(***************************************************************************)
Blank == [kind |-> "blank", pre |-> FALSE, key |-> "", val |-> ""]
Comment(title) == [kind |-> "comment", pre |-> TRUE, key |-> title, val |-> ""]
KV(key, val) == [kind |-> "kv", pre |-> FALSE, key |-> key, val |-> val]
Prefixed(key, val) == [kind |-> "kv", pre |-> TRUE, key |-> key, val |-> val]

EmptyText == <<Blank>>

\* String.prototype.includes on the whole text
TextIncludes(text, name) == \E i \in 1..Len(text) : text[i].key = name

\* new RegExp(`^${varName}=.*$`, 'gm') matches the piece
LineMatches(line, varName) ==
    /\ line.kind = "kv"
    /\ ~line.pre
    /\ line.key = varName

\* text + block, for a block that starts with "\n" (its first piece is blank)
\* `envContent = block`: the block alone
AppendBlock_Replaces(text, block) == Tail(block)

\* `envContent += block`; the block starts with a line break, so its first
\* piece joins the last piece of the text
AppendBlock(text, block) == text \o Tail(block)

RECURSIVE NonBlank(_)
NonBlank(text) ==
    IF text = <<>> THEN <<>>
    ELSE IF Head(text).kind = "blank" THEN NonBlank(Tail(text))
    ELSE <<Head(text)>> \o NonBlank(Tail(text))

supabaseEnvVars == <<
    Blank,
    Comment("# Supabase Configuration"),
    KV("NEXT_PUBLIC_SUPABASE_URL", "your_supabase_project_url"),
    KV("NEXT_PUBLIC_SUPABASE_ANON_KEY", "your_supabase_anon_key"),
    KV("SUPABASE_SERVICE_ROLE_KEY", "your_supabase_service_role_key"),
    Blank >>

clerkEnvVars == <<
    Blank,
    Comment("# Clerk Configuration"),
    KV("NEXT_PUBLIC_CLERK_PUBLISHABLE_KEY", "your_clerk_publishable_key"),
    KV("CLERK_SECRET_KEY", "your_clerk_secret_key"),
    KV("NEXT_PUBLIC_CLERK_SIGN_IN_URL", "/sign-in"),
    KV("NEXT_PUBLIC_CLERK_SIGN_UP_URL", "/sign-up"),
    KV("NEXT_PUBLIC_CLERK_AFTER_SIGN_IN_URL", "/dashboard"),
    KV("NEXT_PUBLIC_CLERK_AFTER_SIGN_UP_URL", "/dashboard"),
    Blank >>

\* the variable names cleanupEnvironmentVariables strips
supabaseVars == { "NEXT_PUBLIC_SUPABASE_URL", "NEXT_PUBLIC_SUPABASE_ANON_KEY",
                  "SUPABASE_SERVICE_ROLE_KEY", "DATABASE_URL" }

clerkVars == { "NEXT_PUBLIC_CLERK_PUBLISHABLE_KEY", "CLERK_SECRET_KEY",
               "NEXT_PUBLIC_CLERK_SIGN_IN_URL", "NEXT_PUBLIC_CLERK_SIGN_UP_URL",
               "NEXT_PUBLIC_CLERK_AFTER_SIGN_IN_URL",
               "NEXT_PUBLIC_CLERK_AFTER_SIGN_UP_URL" }

\* updateEnvironmentVariables: the text written back for `service`
\* the append without its `!envContent.includes(...)` guard
EnvAfterUpdate_Unguarded(text, service) ==
    AppendBlock(text, IF service = "supabase" THEN supabaseEnvVars ELSE clerkEnvVars)

EnvAfterUpdate(text, service) ==
    IF service = "supabase"
    THEN IF ~TextIncludes(text, "NEXT_PUBLIC_SUPABASE_URL")
         THEN AppendBlock(text, supabaseEnvVars) ELSE text
    ELSE IF ~TextIncludes(text, "NEXT_PUBLIC_CLERK_PUBLISHABLE_KEY")
         THEN AppendBlock(text, clerkEnvVars) ELSE text

\* content.replace(regex, '') for each variable of the service
StripVars(text, service) ==
    LET names == IF service = "supabase" THEN supabaseVars ELSE clerkVars
    IN [i \in 1..Len(text) |->
          IF \E n \in names : LineMatches(text[i], n) THEN Blank ELSE text[i]]

\* content.replace(/\n\s*\n/g, '\n').trim(): the pieces that are left
CollapseAndTrim(text) == NonBlank(text)

(***************************************************************************)
(* The file system calls of fs-extra.  Each yields [fs, ok, written, ext]:  *)
(* the directory afterwards, whether the call returned (ok) or threw, the  *)
(* paths whose content it wrote, and the external calls that failed.       *)
(***************************************************************************)
Res(f, ok, written) ==
    [fs |-> f, ok |-> ok, written |-> written,
     ext |-> IF ok THEN {} ELSE {"writer fs call"}]

\* a catch block that reports the failure as `what` and throws it again
Caught_Rethrows(r, what) ==
    [fs |-> r.fs, ok |-> r.ok, written |-> r.written,
     ext |-> IF r.ok THEN {} ELSE {what}]

\* the result of a call whose failure was caught and reported as `what`
Caught(r, what) ==
    [fs |-> r.fs, ok |-> TRUE, written |-> r.written,
     ext |-> IF r.ok THEN {} ELSE {what}]

PathExists(f, p) ==
    \/ p \in DOMAIN f.files
    \/ p \in f.dirs
    \/ p = EnvPath /\ f.env.exists
    \/ p = PkgPath /\ f.pkg.state # "missing"

AllPaths(f) ==
    DOMAIN f.files \cup f.dirs
    \cup (IF f.env.exists THEN {EnvPath} ELSE {})
    \cup (IF f.pkg.state # "missing" THEN {PkgPath} ELSE {})

\* fs.ensureDir: creates the directory and its parents; throws when a file is
\* in the way
EnsureDir(f, d) ==
    LET chain == Parents(d) \cup {d}
    IN IF \E q \in chain : q \in DOMAIN f.files
       THEN Res(f, FALSE, {})
       ELSE Res([f EXCEPT !.dirs = @ \cup chain], TRUE, {})

\* fs.writeFile: creates or replaces the file; throws when the path cannot be
\* written, when its directory is missing or when it is a directory
WriteFile(f, w, p, content) ==
    IF \/ p = w.badPath
       \/ p \in f.dirs
       \/ \E q \in Parents(p) : q \notin f.dirs
    THEN Res(f, FALSE, {})
    ELSE Res([f EXCEPT !.files = (p :> content) @@ @], TRUE, {p})

WriteEnv(f, w, text) ==
    IF EnvPath = w.badPath
    THEN Res(f, FALSE, {})
    ELSE Res([f EXCEPT !.env = [exists |-> TRUE, text |-> text]], TRUE, {EnvPath})

\* fs.remove: the path and everything below it
Remove(f, p) ==
    [f EXCEPT
        !.files = [q \in {x \in DOMAIN f.files : ~IsPrefix(p, x)} |-> f.files[q]],
        !.dirs = {d \in f.dirs : ~IsPrefix(p, d)},
        !.env = IF p = EnvPath THEN [exists |-> FALSE, text |-> EmptyText] ELSE @]

(***************************************************************************)
(* Detection (src/src/utils/detection.ts).  fs.readJson throws on a        *)
(* missing or malformed package.json; each detector catches and answers    *)
(* false / 'unknown'.                                                      *)
(***************************************************************************)
ReadJsonOk(f) == f.pkg.state = "ok"

\* fs.readFile(p) returns the text
Readable(f, p) == p \in DOMAIN f.files /\ f.files[p].origin # "unreadable"

\* `for (const file of files) if (pathExists(file)) { readFile; includes }`:
\* "present" at the first file holding one of the needles, "throws" at the
\* first file that cannot be read, "absent" when the list is exhausted
RECURSIVE ProbeFiles(_, _, _)
ProbeFiles(f, files, needles) ==
    IF files = <<>> THEN "absent"
    ELSE IF ~PathExists(f, Head(files)) THEN ProbeFiles(f, Tail(files), needles)
    ELSE IF ~Readable(f, Head(files)) THEN "throws"
    ELSE IF \E n \in needles : Includes(f.files[Head(files)], n) THEN "present"
    ELSE ProbeFiles(f, Tail(files), needles)

\* `try { ... } catch { return false }` around a detector's body: the value
\* the detector returns
OrFalse(outcome) == outcome = "present"

\* a detector without its catch block: the failure reaches the caller
Escapes_Uncaught(outcome) == outcome = "throws"

\* whether a failure inside the detector's try block reaches the caller
Escapes(outcome) == FALSE

\* the classification with the two directory tests exchanged
detectProjectType_PagesFirst(f) ==
    IF ~ReadJsonOk(f) THEN "unknown"
    ELSE IF "next" \notin f.pkg.deps THEN "unknown"
    ELSE IF PathExists(f, <<"pages">>) THEN "nextjs-pages"
    ELSE IF PathExists(f, <<"app">>) THEN "nextjs-app"
    ELSE "nextjs"

detectProjectType(f) ==
    IF ~ReadJsonOk(f) THEN "unknown"
    ELSE IF "next" \notin f.pkg.deps THEN "unknown"
    ELSE IF PathExists(f, <<"app">>) THEN "nextjs-app"
    ELSE IF PathExists(f, <<"pages">>) THEN "nextjs-pages"
    ELSE "nextjs"

supabaseFiles == { SbClient, SbServer, SbMiddleware, SbUtils, SbConfig }

\* the same, in the order of the loop
supabaseFileList == << SbClient, SbServer, SbMiddleware, SbUtils, SbConfig >>

SupabaseFileMarker(f) ==
    \E p \in supabaseFiles :
        /\ p \in DOMAIN f.files
        /\ \/ Includes(f.files[p], "@supabase/")
           \/ Includes(f.files[p], "createClient")
           \/ Includes(f.files[p], "supabase")

SupabaseEnvMarker(f) ==
    /\ f.env.exists
    /\ TextIncludes(f.env.text, "NEXT_PUBLIC_SUPABASE_URL")
    /\ TextIncludes(f.env.text, "NEXT_PUBLIC_SUPABASE_ANON_KEY")

SupabasePkgMarker(f) ==
    /\ f.pkg.state = "ok"
    /\ f.pkg.deps \cap {"@supabase/supabase-js", "@supabase/ssr"} # {}

\* the body of detectSupabase's try block: "present", "absent" or "throws"
SupabaseProbe(f) ==
    IF ~ReadJsonOk(f) THEN "throws"
    ELSE IF SupabasePkgMarker(f) THEN "present"
    ELSE IF ProbeFiles(f, supabaseFileList, {"@supabase/", "createClient", "supabase"})
            # "absent"
    THEN ProbeFiles(f, supabaseFileList, {"@supabase/", "createClient", "supabase"})
    ELSE IF SupabaseEnvMarker(f) THEN "present"
    ELSE "absent"

detectSupabase(f) == OrFalse(SupabaseProbe(f))

clerkFiles == { ClerkLegacy }

ClerkFileMarker(f) ==
    \/ \E p \in clerkFiles :
        /\ p \in DOMAIN f.files
        /\ \/ Includes(f.files[p], "@clerk/")
           \/ Includes(f.files[p], "ClerkProvider")
    \/ /\ RootMiddleware \in DOMAIN f.files
       /\ \/ Includes(f.files[RootMiddleware], "clerkMiddleware")
          \/ Includes(f.files[RootMiddleware], "@clerk/nextjs/server")

ClerkEnvMarker(f) ==
    /\ f.env.exists
    /\ TextIncludes(f.env.text, "NEXT_PUBLIC_CLERK_PUBLISHABLE_KEY")
    /\ TextIncludes(f.env.text, "CLERK_SECRET_KEY")

ClerkPkgMarker(f) ==
    /\ f.pkg.state = "ok"
    /\ f.pkg.deps \cap {"@clerk/nextjs", "@clerk/clerk-js"} # {}

\* the body of detectClerk's try block
ClerkProbe(f) ==
    IF ~ReadJsonOk(f) THEN "throws"
    ELSE IF ClerkPkgMarker(f) THEN "present"
    ELSE IF ProbeFiles(f, <<ClerkLegacy>>, {"@clerk/", "ClerkProvider"}) # "absent"
    THEN ProbeFiles(f, <<ClerkLegacy>>, {"@clerk/", "ClerkProvider"})
    ELSE IF ProbeFiles(f, <<RootMiddleware>>, {"clerkMiddleware", "@clerk/nextjs/server"})
            # "absent"
    THEN ProbeFiles(f, <<RootMiddleware>>, {"clerkMiddleware", "@clerk/nextjs/server"})
    ELSE IF ClerkEnvMarker(f) THEN "present"
    ELSE "absent"

detectClerk(f) == OrFalse(ClerkProbe(f))

nextAuthFiles == { <<"pages", "api", "auth", "[...nextauth].ts">>,
                   <<"pages", "api", "auth", "[...nextauth].js">>,
                   <<"app", "api", "auth", "[...nextauth]", "route.ts">>,
                   <<"lib", "auth.ts">>, <<"lib", "auth.js">> }

\* the body of detectNextAuth's try block
NextAuthProbe(f) ==
    IF ~ReadJsonOk(f) THEN "throws"
    ELSE IF f.pkg.deps \cap {"next-auth", "@auth/nextjs"} # {} THEN "present"
    ELSE IF \E p \in nextAuthFiles : PathExists(f, p) THEN "present"
    ELSE "absent"

detectNextAuth(f) == OrFalse(NextAuthProbe(f))

detectExistingSetup(f) ==
    [ hasSupabase |-> detectSupabase(f),
      hasClerk    |-> detectClerk(f),
      hasNextAuth |-> detectNextAuth(f),
      projectType |-> detectProjectType(f) ]

\* the probes whose try block threw
ThrowingProbes(f) ==
    (IF ~ReadJsonOk(f) THEN {"detectProjectType"} ELSE {})
    \cup (IF SupabaseProbe(f) = "throws" THEN {"detectSupabase"} ELSE {})
    \cup (IF ClerkProbe(f) = "throws" THEN {"detectClerk"} ELSE {})
    \cup (IF NextAuthProbe(f) = "throws" THEN {"detectNextAuth"} ELSE {})

\* detectExistingSetup throws when one of its detectors does (it has no try
\* block of its own)
DetectionThrows(f) ==
    \/ Escapes(IF ReadJsonOk(f) THEN "absent" ELSE "throws")
    \/ Escapes(SupabaseProbe(f))
    \/ Escapes(ClerkProbe(f))
    \/ Escapes(NextAuthProbe(f))

(***************************************************************************)
(* Setup writers.  A writer is the sequence of its file system calls; a    *)
(* call that throws ends the writer (the calls before it stay done).       *)
(***************************************************************************)
Dir(d)      == [k |-> "ensureDir", p |-> d, c |-> Tmpl({}), arg |-> ""]
Write(p, c) == [k |-> "writeFile", p |-> p, c |-> c, arg |-> ""]
Env(svc)    == [k |-> "updateEnv", p |-> EnvPath, c |-> Tmpl({}), arg |-> svc]
Provider(t) == [k |-> "provider", p |-> NoPath, c |-> Tmpl({}), arg |-> t]

\* supabase.ts / clerk.ts updateEnvironmentVariables: read .env.local when it
\* exists, append the block unless the key is mentioned, always write back
updateEnvironmentVariables(f, w, service) ==
    LET envContent == IF f.env.exists THEN f.env.text ELSE EmptyText
    IN WriteEnv(f, w, EnvAfterUpdate(envContent, service))

LayoutTemplate == [origin |-> "tmpl", marks |-> {"{children}"}, imp |-> 1, wrap |-> 1]
PagesAppTemplate ==
    [origin |-> "tmpl", marks |-> {"next/app", "<Component"}, imp |-> 1, wrap |-> 1]

\* updateExistingLayout without its `already has ClerkProvider` return
updateExistingLayout_Unguarded(f, w) ==
    LET content == f.files[AppLayout]
        withImport == IF Includes(content, "from '@/lib/clerk'") THEN content
                      ELSE [content EXCEPT !.imp = @ + 1]
        updated == IF Includes(withImport, "{children}")
                   THEN [withImport EXCEPT !.wrap = @ + 1] ELSE withImport
    IN Caught(WriteFile(f, w, AppLayout, updated), "layout patch")

\* clerk.ts updateExistingLayout: every failure inside is caught and only
\* reported, so the call always returns
updateExistingLayout(f, w) ==
    LET content == f.files[AppLayout]
        withImport == IF Includes(content, "from '@/lib/clerk'") THEN content
                      ELSE [content EXCEPT !.imp = @ + 1]
        updated == IF Includes(withImport, "{children}")
                   THEN [withImport EXCEPT !.wrap = @ + 1] ELSE withImport
        r == WriteFile(f, w, AppLayout, updated)
    IN IF Includes(content, "ClerkProvider") \/ Includes(content, "ClerkProviderWrapper")
       THEN Res(f, TRUE, {})
       ELSE Caught(r, "layout patch")

\* clerk.ts updateExistingPagesApp
updateExistingPagesApp(f, w) ==
    LET content == f.files[PagesApp]
        withImport == IF ~Includes(content, "from '@/lib/clerk'")
                         /\ Includes(content, "next/app")
                      THEN [content EXCEPT !.imp = @ + 1] ELSE content
        updated == IF Includes(withImport, "<Component")
                   THEN [withImport EXCEPT !.wrap = @ + 1] ELSE withImport
        r == WriteFile(f, w, PagesApp, updated)
    IN IF Includes(content, "ClerkProvider") \/ Includes(content, "ClerkProviderWrapper")
       THEN Res(f, TRUE, {})
       ELSE Caught(r, "layout patch")

\* clerk.ts createClerkProvider
createClerkProvider(f, w, projectType) ==
    IF projectType = "nextjs-app"
    THEN IF PathExists(f, AppLayout)
         THEN IF AppLayout \in DOMAIN f.files
              THEN updateExistingLayout(f, w)
              ELSE Caught(Res(f, FALSE, {}), "layout patch")
         ELSE WriteFile(f, w, AppLayout, LayoutTemplate)
    ELSE IF PathExists(f, PagesApp)
         THEN IF PagesApp \in DOMAIN f.files
              THEN updateExistingPagesApp(f, w)
              ELSE Caught(Res(f, FALSE, {}), "layout patch")
         ELSE WriteFile(f, w, PagesApp, PagesAppTemplate)

ApplyOp(f, w, op) ==
    CASE op.k = "ensureDir" -> EnsureDir(f, op.p)
      [] op.k = "writeFile" -> WriteFile(f, w, op.p, op.c)
      [] op.k = "updateEnv" -> updateEnvironmentVariables(f, w, op.arg)
      [] op.k = "provider"  -> createClerkProvider(f, w, op.arg)

RECURSIVE RunOps(_, _, _)
RunOps(r, w, ops) ==
    IF ops = <<>> \/ ~r.ok THEN r
    ELSE LET x == ApplyOp(r.fs, w, Head(ops))
         IN RunOps([fs |-> x.fs, ok |-> x.ok, written |-> r.written \cup x.written,
                    ext |-> r.ext \cup x.ext], w, Tail(ops))

\* the file system calls of setupSupabase, in order
SupabaseOps(projectType) ==
    << Dir(<<"lib", "supabase">>), Dir(<<"types">>), Dir(<<"supabase", "migrations">>),
       Write(SbClient, Tmpl({"@supabase/", "createClient"})),
       Write(SbServer, Tmpl({"@supabase/", "createClient"})),
       Write(SbMiddleware, Tmpl({"@supabase/"})),
       Write(SbTypes, Tmpl({})),
       Write(SbMigration, Tmpl({})),
       Write(SbConfig, Tmpl({"supabase"})),
       Env("supabase") >>
    \o (IF projectType = "nextjs-app"
        THEN << Dir(<<"app", "api", "profiles">>),
                Write(AppProfiles, Tmpl({"createClient"})) >>
        ELSE << Dir(<<"pages", "api", "profiles">>),
                Write(PagesProfiles, Tmpl({"createClient"})) >>)
    \o << Dir(<<"components">>),
          Write(ProfileCmp, Tmpl({"createClient"})),
          Write(ConnTestCmp, Tmpl({"createClient"})),
          Dir(<<"app", "connection-test">>),
          Write(ConnTestPage, Tmpl({})),
          Dir(<<"supabase">>),
          Write(SbEnhancedSql, Tmpl({})) >>

setupSupabase(f, w, setup) == RunOps(Res(f, TRUE, {}), w, SupabaseOps(setup.projectType))

\* the file system calls of setupClerk, in order
ClerkOps(projectType) ==
    << Dir(<<"lib">>), Dir(<<"components">>),
       Dir(<<"app", "sign-in", "[[...sign-in]]">>),
       Dir(<<"app", "sign-up", "[[...sign-up]]">>),
       Write(ClerkConfig, Tmpl({"@clerk/", "ClerkProviderWrapper"})),
       Write(RootMiddleware, Tmpl({"clerkMiddleware", "@clerk/nextjs/server"})) >>
    \o (IF projectType = "nextjs-app"
        THEN << Write(AppSignIn, Tmpl({"@clerk/"})),
                Write(AppSignUp, Tmpl({"@clerk/"})) >>
        ELSE << Dir(<<"pages", "sign-in">>), Write(PagesSignIn, Tmpl({"@clerk/"})),
                Dir(<<"pages", "sign-up">>), Write(PagesSignUp, Tmpl({"@clerk/"})) >>)
    \o << Provider(projectType),
          Env("clerk"),
          Dir(<<"components">>),
          Write(DashboardCmp, Tmpl({"@clerk/"})),
          Dir(<<"app", "api", "protected">>),
          Write(ProtectedRoute, Tmpl({"@clerk/nextjs/server"})) >>

setupClerk(f, w, setup) == RunOps(Res(f, TRUE, {}), w, ClerkOps(setup.projectType))

\* the file system calls of setupWebhooks, in order
WebhookOps(installSupabase, installClerk) ==
    << Dir(<<"app", "api", "webhooks">>) >>
    \o (IF installSupabase
        THEN << Dir(<<"app", "api", "webhooks", "supabase">>),
                Write(WebhookSb, Tmpl({"supabase"})) >>
        ELSE << >>)
    \o (IF installClerk
        THEN << Dir(<<"app", "api", "webhooks", "clerk">>),
                Write(WebhookClerk, Tmpl({"@supabase/", "createClient"})) >>
        ELSE << >>)
    \o << Write(WebhookUtils, Tmpl({})) >>

setupWebhooks(f, w, installSupabase, installClerk) ==
    RunOps(Res(f, TRUE, {}), w, WebhookOps(installSupabase, installClerk))

(***************************************************************************)
(* The package manager (an external collaborator).  `npm install` adds the *)
(* packages to package.json, creating it when missing; `npm uninstall`     *)
(* drops them.  A call fails when the world says so or when package.json   *)
(* cannot be parsed.  n is the number of the call within its command.      *)
(***************************************************************************)
NpmWorks(f, w, n) == w.npmFail # n /\ f.pkg.state # "malformed"

NpmInstall(f, names, dev) ==
    [f EXCEPT !.pkg = [state |-> "ok",
                       deps  |-> IF dev THEN @.deps ELSE @.deps \cup names,
                       dev   |-> IF dev THEN @.dev \cup names ELSE @.dev]]

NpmUninstall(f, names) ==
    [f EXCEPT !.pkg = [@ EXCEPT !.deps = @ \ names, !.dev = @ \ names]]

\* installDependencies with a try block around each call: the dev call is made
\* after a failed runtime call
installDependencies_KeepsGoing(f, w, installSupabase, installClerk, existingSetup, hasWebhooks) ==
    LET dependencies ==
            (IF installSupabase /\ ~existingSetup.hasSupabase
             THEN {"@supabase/supabase-js", "@supabase/ssr"} ELSE {})
            \cup (IF installClerk /\ ~existingSetup.hasClerk
                  THEN {"@clerk/nextjs"} ELSE {})
            \cup (IF hasWebhooks THEN {"svix"} ELSE {})
            \cup (IF (installSupabase \/ installClerk)
                     /\ ~existingSetup.hasSupabase /\ ~existingSetup.hasClerk
                  THEN {"react", "react-dom"} ELSE {})
        devDependencies ==
            IF installSupabase /\ ~existingSetup.hasSupabase
            THEN {"@types/node"} ELSE {}
        call1 == [cmd |-> "npm install", names |-> dependencies]
        call2 == [cmd |-> "npm install --save-dev", names |-> devDependencies]
        ok1 == NpmWorks(f, w, 1)
        f1  == IF dependencies # {} /\ ok1 THEN NpmInstall(f, dependencies, FALSE) ELSE f
        n2  == IF dependencies # {} THEN 2 ELSE 1
        ok2 == NpmWorks(f1, w, n2)
        f2  == IF ok2 THEN NpmInstall(f1, devDependencies, TRUE) ELSE f1
    IN IF dependencies = {} /\ devDependencies = {}
       THEN [fs |-> f, ok |-> TRUE, npm |-> <<>>, ext |-> {}]
       ELSE IF dependencies # {} /\ ~ok1 /\ devDependencies = {}
       THEN [fs |-> f, ok |-> FALSE, npm |-> <<call1>>, ext |-> {"npm install"}]
       ELSE IF dependencies # {} /\ ~ok1
       THEN [fs |-> f2, ok |-> FALSE, npm |-> <<call1, call2>>, ext |-> {"npm install"}]
       ELSE IF devDependencies = {}
       THEN [fs |-> f1, ok |-> TRUE, npm |-> <<call1>>, ext |-> {}]
       ELSE [fs |-> f2, ok |-> ok2,
             npm |-> (IF dependencies # {} THEN <<call1>> ELSE <<>>) \o <<call2>>,
             ext |-> IF ok2 THEN {} ELSE {"npm install"}]

\* installer.ts installDependencies: [fs, ok, npm, ext]; npm lists the package
\* manager invocations in order
installDependencies(f, w, installSupabase, installClerk, existingSetup, hasWebhooks) ==
    LET dependencies ==
            (IF installSupabase /\ ~existingSetup.hasSupabase
             THEN {"@supabase/supabase-js", "@supabase/ssr"} ELSE {})
            \cup (IF installClerk /\ ~existingSetup.hasClerk
                  THEN {"@clerk/nextjs"} ELSE {})
            \cup (IF hasWebhooks THEN {"svix"} ELSE {})
            \cup (IF (installSupabase \/ installClerk)
                     /\ ~existingSetup.hasSupabase /\ ~existingSetup.hasClerk
                  THEN {"react", "react-dom"} ELSE {})
        devDependencies ==
            IF installSupabase /\ ~existingSetup.hasSupabase
            THEN {"@types/node"} ELSE {}
        call1 == [cmd |-> "npm install", names |-> dependencies]
        call2 == [cmd |-> "npm install --save-dev", names |-> devDependencies]
        ok1 == NpmWorks(f, w, 1)
        f1  == IF dependencies # {} /\ ok1 THEN NpmInstall(f, dependencies, FALSE) ELSE f
        n2  == IF dependencies # {} THEN 2 ELSE 1
        ok2 == NpmWorks(f1, w, n2)
        f2  == IF ok2 THEN NpmInstall(f1, devDependencies, TRUE) ELSE f1
    IN IF dependencies = {} /\ devDependencies = {}
       THEN [fs |-> f, ok |-> TRUE, npm |-> <<>>, ext |-> {}]
       ELSE IF dependencies # {} /\ ~ok1
       THEN [fs |-> f, ok |-> FALSE, npm |-> <<call1>>, ext |-> {"npm install"}]
       ELSE IF devDependencies = {}
       THEN [fs |-> f1, ok |-> TRUE, npm |-> <<call1>>, ext |-> {}]
       ELSE [fs |-> f2, ok |-> ok2,
             npm |-> (IF dependencies # {} THEN <<call1>> ELSE <<>>) \o <<call2>>,
             ext |-> IF ok2 THEN {} ELSE {"npm install"}]

(***************************************************************************)
(* The commands (src/src/cli.ts).  A command threads a context through     *)
(* its steps: [fs, ok, written, ext, steps, npm, failed, db].  steps lists *)
(* the steps entered, in order, failed the step whose call threw, and db   *)
(* the database sessions the command opened; once a step has thrown        *)
(* (ok = FALSE) control is in the catch block and no further step is       *)
(* entered.                                                                *)
(***************************************************************************)
Ctx(f, ext) ==
    [fs |-> f, ok |-> TRUE, written |-> {}, ext |-> ext, steps |-> <<>>,
     npm |-> <<>>, failed |-> "none", db |-> <<>>]

\* a try block without control flow: the steps after a throwing one still run
Stage_Continues(c, name, r) ==
    [fs |-> r.fs, ok |-> c.ok /\ r.ok, written |-> c.written \cup r.written,
     ext |-> c.ext \cup r.ext, steps |-> Append(c.steps, name), npm |-> c.npm,
     failed |-> IF c.failed = "none" /\ ~r.ok THEN name ELSE c.failed, db |-> c.db]

\* `await step()` inside the command's try block
Stage(c, name, r) ==
    IF ~c.ok THEN c
    ELSE [fs |-> r.fs, ok |-> r.ok, written |-> c.written \cup r.written,
          ext |-> c.ext \cup r.ext, steps |-> Append(c.steps, name), npm |-> c.npm,
          failed |-> IF r.ok THEN "none" ELSE name, db |-> c.db]

\* the failed reads of detection, which the detectors catch
DetectionFailures(f) ==
    IF ~ReadJsonOk(f) THEN {"readJson"}
    ELSE IF ThrowingProbes(f) # {} THEN {"readFile"}
    ELSE {}

\* cli.ts 37 and 199: `await detectExistingSetup()` inside the command's try
\* block; a detection that throws sends the command to its catch block
Detected(f) ==
    IF DetectionThrows(f)
    THEN [Ctx(f, DetectionFailures(f)) EXCEPT !.ok = FALSE,
                                              !.failed = "detectExistingSetup"]
    ELSE Ctx(f, DetectionFailures(f))

\* what the finished command leaves behind
Outcome(cmd, f, existing, early, c) ==
    [cmd |-> cmd, pre |-> f, post |-> c.fs, setup |-> existing, early |-> early,
     exit |-> IF c.ok THEN 0 ELSE 1,
     failed |-> c.failed,
     steps |-> c.steps, written |-> c.written, ext |-> c.ext, npm |-> c.npm,
     db |-> c.db]

\* cli.ts 53-54: what to install
WantsSupabase(o, existingSetup) ==
    o.all \/ o.supabase \/ (~o.clerk /\ ~existingSetup.hasSupabase)

\* the Clerk half without its `!options.supabase`
WantsClerk_IgnoresSupabaseFlag(o, existingSetup) ==
    o.all \/ o.clerk \/ ~existingSetup.hasClerk

WantsClerk(o, existingSetup) ==
    o.all \/ o.clerk \/ (~o.supabase /\ ~existingSetup.hasClerk)

\* cli.ts 56 and 62: the guards of the two writers
RunsSupabaseWriter(o, existingSetup, installSupabase) ==
    installSupabase /\ ~existingSetup.hasSupabase

RunsClerkWriter(o, existingSetup, installClerk) ==
    installClerk /\ ~existingSetup.hasClerk

\* cli.ts 56-60
SupabaseStage(c, o, w, existingSetup, installSupabase) ==
    IF RunsSupabaseWriter(o, existingSetup, installSupabase)
    THEN Stage(c, "setupSupabase", setupSupabase(c.fs, w, existingSetup))
    ELSE c

\* cli.ts 62-66
ClerkStage(c, o, w, existingSetup, installClerk) ==
    IF RunsClerkWriter(o, existingSetup, installClerk)
    THEN Stage(c, "setupClerk", setupClerk(c.fs, w, existingSetup))
    ELSE c

\* cli.ts 69-73
WebhookStage(c, o, w, installSupabase, installClerk) ==
    IF o.webhooks
    THEN Stage(c, "setupWebhooks", setupWebhooks(c.fs, w, installSupabase, installClerk))
    ELSE c

\* the context after installDependencies has returned or thrown
AfterDeps(c, r) ==
    [fs |-> r.fs, ok |-> r.ok, written |-> c.written, ext |-> c.ext \cup r.ext,
     steps |-> Append(c.steps, "installDependencies"), npm |-> c.npm \o r.npm,
     failed |-> IF r.ok THEN "none" ELSE "installDependencies", db |-> c.db]

\* cli.ts 75-79: installDependencies is called with three arguments, so its
\* hasWebhooks parameter is false
DepsStage(c, o, w, existingSetup, installSupabase, installClerk) ==
    IF ~o.skipDeps /\ c.ok
    THEN AfterDeps(c, installDependencies(c.fs, w, installSupabase, installClerk,
                                          existingSetup, FALSE))
    ELSE c

\* cli.ts 82-96: a missing CLI or a failed push is reported as a warning
MigrationStage(c, o, w, installSupabase) ==
    IF o.applyMigrations /\ installSupabase /\ c.ok
    THEN [c EXCEPT !.steps = Append(@, "applyMigrations"),
                   !.ext = IF w.cliAvail /\ ~w.pushOk
                           THEN @ \cup {"supabase db push"} ELSE @]
    ELSE c

\* cli.ts 56-96: the steps in order
InstallSteps(f, o, w, existingSetup, installSupabase, installClerk) ==
    MigrationStage(
      DepsStage(
        WebhookStage(
          ClerkStage(
            SupabaseStage(Detected(f), o, w, existingSetup,
                          installSupabase),
            o, w, existingSetup, installClerk),
          o, w, installSupabase, installClerk),
        o, w, existingSetup, installSupabase, installClerk),
      o, w, installSupabase)

InstallWith(f, o, w, existingSetup) ==
    IF existingSetup.hasSupabase /\ existingSetup.hasClerk /\ ~o.force
    THEN Outcome("install", f, existingSetup, TRUE, Detected(f))
    ELSE Outcome("install", f, existingSetup, FALSE,
                 InstallSteps(f, o, w, existingSetup,
                              WantsSupabase(o, existingSetup),
                              WantsClerk(o, existingSetup)))

InstallCommand(f, o, w) == InstallWith(f, o, w, detectExistingSetup(f))

(***************************************************************************)
(* Uninstallers (src/unnamed/part_001).                                    *)
(***************************************************************************)
RECURSIVE RemoveAll(_, _)
RemoveAll(f, paths) ==
    IF paths = <<>> THEN f
    ELSE RemoveAll(IF PathExists(f, Head(paths)) THEN Remove(f, Head(paths)) ELSE f,
                   Tail(paths))

\* every failure inside is caught and reported as a warning
cleanupEnvironmentVariables(f, w, service) ==
    LET content == CollapseAndTrim(StripVars(f.env.text, service))
        r == IF content # <<>>
             THEN WriteEnv(f, w, content \o <<Blank>>)
             ELSE Res(Remove(f, EnvPath), TRUE, {})
    IN IF ~f.env.exists THEN Res(f, TRUE, {})
       ELSE Caught(r, "env cleanup")

\* the import lines and one wrapper element taken out of a layout file
Unwrapped(content, element) ==
    [content EXCEPT !.imp = 0,
                    !.wrap = IF @ > 0 /\ Includes(content, element) THEN @ - 1 ELSE @]

cleanupLayoutFiles(f, w) ==
    LET r1 == IF AppLayout \in DOMAIN f.files
              THEN WriteFile(f, w, AppLayout, Unwrapped(f.files[AppLayout], "{children}"))
              ELSE Res(f, AppLayout \notin f.dirs, {})
        r2 == IF PagesApp \in DOMAIN r1.fs.files
              THEN WriteFile(r1.fs, w, PagesApp,
                             Unwrapped(r1.fs.files[PagesApp], "<Component"))
              ELSE Res(r1.fs, PagesApp \notin r1.fs.dirs, {})
    IN IF ~r1.ok THEN Caught(r1, "layout cleanup")
       ELSE Caught([r2 EXCEPT !.written = @ \cup r1.written], "layout cleanup")

supabaseFilesToRemove ==
    << <<"lib", "supabase">>, SbTypes, <<"supabase">>, ProfileCmp >>

clerkFilesToRemove ==
    << ClerkConfig, RootMiddleware, <<"app", "sign-in">>, <<"app", "sign-up">>,
       <<"pages", "sign-in">>, <<"pages", "sign-up">>, DashboardCmp,
       <<"app", "api", "protected">> >>

\* execSync('npm uninstall ...') inside its own try/catch
UninstallDeps(c, w, names) ==
    LET works == NpmWorks(c.fs, w, Len(c.npm) + 1)
    IN [c EXCEPT !.fs = IF works THEN NpmUninstall(@, names) ELSE @,
                 !.npm = Append(@, [cmd |-> "npm uninstall", names |-> names]),
                 !.ext = IF works THEN @ ELSE @ \cup {"npm uninstall"}]

Merge(c, r) ==
    [c EXCEPT !.fs = r.fs, !.ok = r.ok,
              !.written = @ \cup r.written, !.ext = @ \cup r.ext]

uninstallSupabase(c, w, keepDeps) ==
    LET a == [c EXCEPT !.fs = RemoveAll(@, supabaseFilesToRemove),
                       !.steps = Append(@, "uninstallSupabase")]
        b == IF ~keepDeps
             THEN UninstallDeps(a, w, {"@supabase/supabase-js", "@supabase/ssr"})
             ELSE a
    IN Merge(b, cleanupEnvironmentVariables(b.fs, w, "supabase"))

uninstallClerk(c, w, keepDeps) ==
    LET a == [c EXCEPT !.fs = RemoveAll(@, clerkFilesToRemove),
                       !.steps = Append(@, "uninstallClerk")]
        b == IF ~keepDeps THEN UninstallDeps(a, w, {"@clerk/nextjs"}) ELSE a
        d == Merge(b, cleanupEnvironmentVariables(b.fs, w, "clerk"))
    IN Merge(d, cleanupLayoutFiles(d.fs, w))

\* cli.ts 202-203: what to remove
RemovesSupabase(o, existingSetup) ==
    o.all \/ o.supabase \/ (~o.clerk /\ existingSetup.hasSupabase)

RemovesClerk(o, existingSetup) ==
    o.all \/ o.clerk \/ (~o.supabase /\ existingSetup.hasClerk)

\* cli.ts 205-209
UninstallSupabaseStage(c, o, w, existingSetup) ==
    IF RemovesSupabase(o, existingSetup) /\ existingSetup.hasSupabase
    THEN uninstallSupabase(c, w, o.keepDeps) ELSE c

\* cli.ts 211-215
UninstallClerkStage(c, o, w, existingSetup) ==
    IF RemovesClerk(o, existingSetup) /\ existingSetup.hasClerk
    THEN uninstallClerk(c, w, o.keepDeps) ELSE c

UninstallWith(f, o, w, existingSetup) ==
    Outcome("uninstall", f, existingSetup,
            ~RemovesSupabase(o, existingSetup) /\ ~RemovesClerk(o, existingSetup),
            UninstallClerkStage(
              UninstallSupabaseStage(Detected(f), o, w, existingSetup),
              o, w, existingSetup))

UninstallCommand(f, o, w) == UninstallWith(f, o, w, detectExistingSetup(f))

(***************************************************************************)
(* The database client (pg.Client) of ClerkWrapperSetup and                *)
(* DatabaseIntegrationSetup, an external collaborator.  The world says     *)
(* whether connect() succeeds, which client.query() of a session fails     *)
(* (dbFailAt, 0 for none), whether end() succeeds and whether Vault hands  *)
(* out a key id.  A session is the list of client calls of one setup()     *)
(* with the outcome of each, whether setup() returned, and the error its   *)
(* caller observes.                                                        *)
(***************************************************************************)
\* a method that issues a statement, and whether its failure is caught inside
\* setup (the method then only logs)
Query(name, caught) == [name |-> name, caught |-> caught]

QueryWorks(w, n) == w.dbFailAt # n

\* the statements in order until one throws out of the try block; connect is
\* the first call of the session, so the n-th statement is call n + 1
RECURSIVE RunQueries(_, _, _)
RunQueries(s, w, queries) ==
    IF queries = << >> \/ ~s.ok THEN s
    ELSE RunQueries(
           [calls |-> Append(s.calls, [call |-> Head(queries).name,
                                       ok |-> QueryWorks(w, Len(s.calls))]),
            ok    |-> QueryWorks(w, Len(s.calls)) \/ Head(queries).caught,
            error |-> IF QueryWorks(w, Len(s.calls)) \/ Head(queries).caught
                      THEN "none" ELSE Head(queries).name],
           w, Tail(queries))

\* connect(): rethrows what client.connect() throws
Connected(w) ==
    [calls |-> << [call |-> "connect", ok |-> w.dbConnect] >>,
     ok    |-> w.dbConnect,
     error |-> IF w.dbConnect THEN "none" ELSE "connect"]

\* `finally { await this.disconnect() }`: client.end() is awaited with no catch
\* around it, so what it throws leaves setup() in place of anything thrown
\* before
Finally(body, w) ==
    [calls |-> Append(body.calls, [call |-> "end", ok |-> w.dbEnd]),
     ok    |-> body.ok /\ w.dbEnd,
     error |-> IF w.dbEnd THEN body.error ELSE "end"]

\* try { connect; statements } catch { log; throw } finally { disconnect }
ClientSession(who, w, queries) ==
    [who |-> who] @@ Finally(RunQueries(Connected(w), w, queries), w)

\* the statements without the try block around storeClerkCredentials
WrapperQueries_VaultFailureAborts(o, w) ==
    << Query("enableWrappersExtension", FALSE), Query("enableWasmWrapper", FALSE) >>
    \o (IF o.useVault THEN << Query("storeClerkCredentials", FALSE) >> ELSE << >>)
    \o (IF o.useVault /\ QueryWorks(w, 3) /\ w.vault
        THEN << Query("createClerkServerWithVault", FALSE) >>
        ELSE << Query("createClerkServerWithoutVault", FALSE) >>)
    \o << Query("createClerkSchema", FALSE),
          Query(IF o.tables = "selected" THEN "importSelectedTables"
                ELSE IF o.tables = "excluded" THEN "importTablesExcept"
                ELSE "importAllTables", FALSE),
          Query("listAvailableTables", TRUE) >>

\* ClerkWrapperSetup.setup: the statements; the key id is there when Vault is
\* used, the third statement worked and Vault returned an id
WrapperQueries(o, w) ==
    << Query("enableWrappersExtension", FALSE), Query("enableWasmWrapper", FALSE) >>
    \o (IF o.useVault THEN << Query("storeClerkCredentials", TRUE) >> ELSE << >>)
    \o (IF o.useVault /\ QueryWorks(w, 3) /\ w.vault
        THEN << Query("createClerkServerWithVault", FALSE) >>
        ELSE << Query("createClerkServerWithoutVault", FALSE) >>)
    \o << Query("createClerkSchema", FALSE),
          Query(IF o.tables = "selected" THEN "importSelectedTables"
                ELSE IF o.tables = "excluded" THEN "importTablesExcept"
                ELSE "importAllTables", FALSE),
          Query("listAvailableTables", TRUE) >>

\* n statements of one method
Times(q, n) == [i \in 1..n |-> q]

\* DatabaseIntegrationSetup.setup with the policy loops not catching
IntegrationQueries_PoliciesAbort(o) ==
    << Query("createProfilesTable", FALSE), Query("createTasksTable", FALSE) >>
    \o Times(Query("enableRLS", FALSE), 2)
    \o Times(Query("createProfilesPolicies", FALSE), 3)
    \o Times(Query("createTasksPolicies", FALSE), 4)
    \o (IF o.enableWebhooks
        THEN << Query("createWebhookFunction", FALSE),
                Query("createWebhookTable", FALSE),
                Query("createWebhookTrigger", FALSE) >>
        ELSE << >>)
    \o Times(Query("createIndexes", FALSE), 5)
    \o Times(Query("verifySetup", TRUE), 3)

\* DatabaseIntegrationSetup.setup: the statements, one entry for each
\* executeQuery; the policy loops and verifySetup catch the failure of each
\* of their statements
IntegrationQueries(o) ==
    << Query("createProfilesTable", FALSE), Query("createTasksTable", FALSE) >>
    \o Times(Query("enableRLS", FALSE), 2)
    \o Times(Query("createProfilesPolicies", TRUE), 3)
    \o Times(Query("createTasksPolicies", TRUE), 4)
    \o (IF o.enableWebhooks
        THEN << Query("createWebhookFunction", FALSE),
                Query("createWebhookTable", FALSE),
                Query("createWebhookTrigger", FALSE) >>
        ELSE << >>)
    \o Times(Query("createIndexes", FALSE), 5)
    \o Times(Query("verifySetup", TRUE), 3)

(***************************************************************************)
(* The enhanced command (EnhancedClerkSupabaseSetup, src/unnamed/part_001).*)
(***************************************************************************)
\* process.env after dotenv.config({ path: '.env.local' }): the variables of
\* the shell and the assignments of the file, empty values counting as unset
ProcessEnv(f, w) ==
    w.vars \cup
    (IF f.env.exists
     THEN { f.env.text[i].key : i \in { j \in 1..Len(f.env.text) :
                /\ f.env.text[j].kind = "kv" /\ ~f.env.text[j].pre
                /\ f.env.text[j].val # "" } }
     ELSE {})

\* validateEnvironment with every Clerk variable required whatever the options
MissingVars_IgnoresOptions(f, o, w) ==
    { "NEXT_PUBLIC_SUPABASE_URL", "SUPABASE_SERVICE_ROLE_KEY", "CLERK_SECRET_KEY",
      "NEXT_PUBLIC_CLERK_PUBLISHABLE_KEY" } \ ProcessEnv(f, w)

\* validateEnvironment: missingVars
MissingVars(f, o, w) ==
    ({ "NEXT_PUBLIC_SUPABASE_URL", "SUPABASE_SERVICE_ROLE_KEY" }
     \cup (IF o.clerkWrapper THEN {"CLERK_SECRET_KEY"} ELSE {})
     \cup (IF o.databaseIntegration THEN {"NEXT_PUBLIC_CLERK_PUBLISHABLE_KEY"} ELSE {}))
    \ ProcessEnv(f, w)

\* validateEnvironment: process.exit(1) when a required variable is missing
ValidateStage(c, o, w) ==
    [c EXCEPT !.steps = Append(@, "validateEnvironment"),
              !.ok = MissingVars(c.fs, o, w) = {},
              !.failed = IF MissingVars(c.fs, o, w) = {} THEN "none"
                         ELSE "validateEnvironment"]

\* setupBasicConfiguration: the writers of the services not detected, then
\* setupWebhooks(true, true) when webhooks are enabled
BasicOps(o, existingSetup) ==
    (IF ~existingSetup.hasSupabase THEN SupabaseOps(existingSetup.projectType)
     ELSE << >>)
    \o (IF ~existingSetup.hasClerk THEN ClerkOps(existingSetup.projectType)
        ELSE << >>)
    \o (IF o.enableWebhooks THEN WebhookOps(TRUE, TRUE) ELSE << >>)

BasicStage(c, o, w) ==
    Stage(c, "setupBasicConfiguration",
          RunOps(Res(c.fs, TRUE, {}), w, BasicOps(o, detectExistingSetup(c.fs))))

\* a step that swallows what setup() throws
SessionStage_Swallows(c, name, session) ==
    IF ~c.ok THEN c
    ELSE [c EXCEPT !.steps = Append(@, name), !.db = Append(@, session)]

\* `await wrapperSetup.setup()` / `await integrationSetup.setup()`
SessionStage(c, name, session) ==
    IF ~c.ok THEN c
    ELSE [c EXCEPT !.steps = Append(@, name),
                   !.db = Append(@, session),
                   !.ok = session.ok,
                   !.ext = IF session.ok THEN @ ELSE @ \cup {"database"},
                   !.failed = IF session.ok THEN "none" ELSE name]

\* setupClerkWrapper
WrapperStage(c, o, w) ==
    IF o.clerkWrapper
    THEN SessionStage(c, "setupClerkWrapper",
                      ClientSession("ClerkWrapperSetup", w, WrapperQueries(o, w)))
    ELSE c

\* setupDatabaseIntegration
IntegrationStage(c, o, w) ==
    IF o.databaseIntegration
    THEN SessionStage(c, "setupDatabaseIntegration",
                      ClientSession("DatabaseIntegrationSetup", w, IntegrationQueries(o)))
    ELSE c

\* EnhancedClerkSupabaseSetup.installDependencies: detection is run again
EnhancedDepsStage(c, o, w) ==
    IF ~o.skipDeps /\ c.ok
    THEN AfterDeps(c, installDependencies(c.fs, w, TRUE, TRUE,
                                          detectExistingSetup(c.fs), o.enableWebhooks))
    ELSE c

\* run(): the six steps in order
EnhancedSteps(f, o, w) ==
    MigrationStage(
      EnhancedDepsStage(
        IntegrationStage(
          WrapperStage(
            BasicStage(ValidateStage(Ctx(f, DetectionFailures(f)), o, w), o, w),
            o, w),
          o, w),
        o, w),
      o, w, TRUE)

EnhancedCommand(f, o, w) ==
    Outcome("enhanced", f, detectExistingSetup(f), FALSE, EnhancedSteps(f, o, w))

(***************************************************************************)
(* main() of the enhanced script: parseArgs, the constructor's defaults,   *)
(* run.  The command line is a sequence of tokens.                         *)
(***************************************************************************)
\* `args[i + 1].split(',').map(t => t.trim())`
SplitTrim(v) ==
    IF v = "users,organizations" THEN << "users", "organizations" >> ELSE << v >>

\* what parseArgs returns for no argument, under the constructor's defaults;
\* an option that was not given is an empty list / an empty string here
DefaultOptions ==
    [ clerkWrapper |-> TRUE, databaseIntegration |-> TRUE, useVault |-> TRUE,
      enableWebhooks |-> TRUE, skipDeps |-> FALSE, applyMigrations |-> FALSE,
      selectedTables |-> << >>, excludedTables |-> << >>, webhookUrl |-> "",
      help |-> FALSE ]

\* parseArgs: the loop from args[i] on; --help leaves through process.exit(0)
RECURSIVE ParseArgs(_, _, _)
ParseArgs(args, i, options) ==
    IF i > Len(args) THEN options
    ELSE IF args[i] = "--no-wrapper"
    THEN ParseArgs(args, i + 1, [options EXCEPT !.clerkWrapper = FALSE])
    ELSE IF args[i] = "--no-integration"
    THEN ParseArgs(args, i + 1, [options EXCEPT !.databaseIntegration = FALSE])
    ELSE IF args[i] = "--no-vault"
    THEN ParseArgs(args, i + 1, [options EXCEPT !.useVault = FALSE])
    ELSE IF args[i] = "--no-webhooks"
    THEN ParseArgs(args, i + 1, [options EXCEPT !.enableWebhooks = FALSE])
    ELSE IF args[i] = "--skip-deps"
    THEN ParseArgs(args, i + 1, [options EXCEPT !.skipDeps = TRUE])
    ELSE IF args[i] = "--apply-migrations"
    THEN ParseArgs(args, i + 1, [options EXCEPT !.applyMigrations = TRUE])
    ELSE IF args[i] = "--tables"
    THEN IF i + 1 <= Len(args)
         THEN ParseArgs(args, i + 2,
                        [options EXCEPT !.selectedTables = SplitTrim(args[i + 1])])
         ELSE ParseArgs(args, i + 1, options)
    ELSE IF args[i] = "--exclude-tables"
    THEN IF i + 1 <= Len(args)
         THEN ParseArgs(args, i + 2,
                        [options EXCEPT !.excludedTables = SplitTrim(args[i + 1])])
         ELSE ParseArgs(args, i + 1, options)
    ELSE IF args[i] = "--webhook-url"
    THEN IF i + 1 <= Len(args)
         THEN ParseArgs(args, i + 2, [options EXCEPT !.webhookUrl = args[i + 1]])
         ELSE ParseArgs(args, i + 1, options)
    ELSE IF args[i] = "--help"
    THEN [options EXCEPT !.help = TRUE]
    ELSE ParseArgs(args, i + 1, options)

parseArgs(argv) == ParseArgs(argv, 1, DefaultOptions)

\* the import step with the two lists looked at in the other order
ImportMode_ExcludedFirst(selectedTables, excludedTables) ==
    IF Len(excludedTables) > 0 THEN "excluded"
    ELSE IF Len(selectedTables) > 0 THEN "selected"
    ELSE "all"

\* ClerkWrapperSetup.setup step 6: which import statement is issued
ImportMode(selectedTables, excludedTables) ==
    IF Len(selectedTables) > 0 THEN "selected"
    ELSE IF Len(excludedTables) > 0 THEN "excluded"
    ELSE "all"

\* the options as the steps of run read them
RunOptions(p) ==
    [ clerkWrapper |-> p.clerkWrapper, databaseIntegration |-> p.databaseIntegration,
      useVault |-> p.useVault, enableWebhooks |-> p.enableWebhooks,
      skipDeps |-> p.skipDeps, applyMigrations |-> p.applyMigrations,
      tables |-> ImportMode(p.selectedTables, p.excludedTables) ]

\* main(): --help prints the usage and exits with 0 before anything is set up
EnhancedMain(f, argv, w) ==
    IF parseArgs(argv).help
    THEN Outcome("enhanced", f, detectExistingSetup(f), TRUE, Ctx(f, {}))
    ELSE EnhancedCommand(f, RunOptions(parseArgs(argv)), w)

(***************************************************************************)
(* Initial projects.                                                       *)
(***************************************************************************)
Pkg(state, deps) == [state |-> state, deps |-> deps, dev |-> {}]

NextOnly     == Pkg("ok", {"next"})
NoManifest   == Pkg("missing", {})
BadManifest  == Pkg("malformed", {})
WithSupabase == Pkg("ok", {"next", "@supabase/supabase-js", "@supabase/ssr"})
WithClerk    == Pkg("ok", {"next", "@clerk/nextjs"})
NotNext      == Pkg("ok", {})

Layouts == SUBSET { <<"app">>, <<"pages">> }

\* files of the user's own, as <<path, content>>
OwnFiles ==
    { <<RootMiddleware, UserText({})>>,
      <<DashboardCmp, UserText({})>>,
      <<SbSeed, UserText({})>>,
      <<AppLayout, UserText({"{children}"})>> }

\* files that carry the text the detector looks for (and one that does not)
MarkerFiles ==
    { <<RootMiddleware, UserText({"clerkMiddleware"})>>,
      <<ClerkLegacy, UserText({"ClerkProvider"})>>,
      <<SbClient, UserText({"@supabase/"})>>,
      <<SbUtils, UserText({"createClient"})>>,
      <<SbConfig, UserText({})>>,
      <<SbUtils, Unreadable>>,
      <<ClerkLegacy, Unreadable>> }

\* at most n of the candidates, no two at one path
OwnSets(candidates, n) ==
    { S \in SUBSET candidates : /\ Cardinality(S) <= n
                                /\ \A a, b \in S : a[1] = b[1] => a = b }

\* lines of the user's own in .env.local
OwnLines ==
    { KV("FOO", "bar"),
      Blank,
      KV("DATABASE_URL", "postgres://own"),
      KV("CLERK_WEBHOOK_SECRET", "whsec_own"),
      KV("SUPABASE_WEBHOOK_SECRET", "own"),
      KV("NEXT_PUBLIC_SUPABASE_URL", "https://own.supabase.co"),
      KV("CLERK_SECRET_KEY", "sk_own"),
      Prefixed("CLERK_SECRET_KEY", "sk_other") }

\* lines that mention the variable names the detector looks for
MarkerLines ==
    { KV("NEXT_PUBLIC_SUPABASE_URL", "https://own.supabase.co"),
      KV("NEXT_PUBLIC_SUPABASE_ANON_KEY", "eyJown"),
      KV("NEXT_PUBLIC_CLERK_PUBLISHABLE_KEY", "pk_own"),
      Comment("CLERK_SECRET_KEY") }

RECURSIVE SeqsUpTo(_, _)
SeqsUpTo(S, n) ==
    IF n = 0 THEN { <<>> }
    ELSE LET shorter == SeqsUpTo(S, n - 1)
         IN shorter \cup { Append(t, x) : t \in shorter, x \in S }

NoEnv == [exists |-> FALSE, text |-> EmptyText]

\* "FOO=bar\n"
OwnEnv == [exists |-> TRUE, text |-> <<KV("FOO", "bar"), Blank>>]

\* .env.local absent, or up to n of the lines, each ended by "\n"
EnvFiles(lines, n) ==
    {NoEnv} \cup { [exists |-> TRUE, text |-> t \o <<Blank>>] : t \in SeqsUpTo(lines, n) }

Project(pkg, layout, own, env) ==
    [ files |-> [p \in { a[1] : a \in own } |-> (CHOOSE a \in own : a[1] = p)[2]],
      dirs  |-> layout \cup UNION { Parents(a[1]) : a \in own },
      env   |-> env,
      pkg   |-> pkg ]

Projects(pkgs, layouts, owns, envs) ==
    { Project(pkg, layout, own, env) :
        pkg \in pkgs, layout \in layouts, own \in owns, env \in envs }

\* the service selections that differ in effect: none, -s, -c, -s -c, -a
Selections ==
    { [all |-> FALSE, supabase |-> FALSE, clerk |-> FALSE],
      [all |-> FALSE, supabase |-> TRUE,  clerk |-> FALSE],
      [all |-> FALSE, supabase |-> FALSE, clerk |-> TRUE],
      [all |-> FALSE, supabase |-> TRUE,  clerk |-> TRUE],
      [all |-> TRUE,  supabase |-> FALSE, clerk |-> FALSE] }

Flags ==
    { [ all |-> sel.all, supabase |-> sel.supabase, clerk |-> sel.clerk,
        skipDeps |-> sd, applyMigrations |-> am, webhooks |-> wh, force |-> fo,
        keepDeps |-> kd ] :
      sel \in Selections, sd \in BOOLEAN, am \in BOOLEAN, wh \in BOOLEAN,
      fo \in BOOLEAN, kd \in BOOLEAN }

\* the variables the enhanced command looks for in process.env
EnvNames ==
    { "NEXT_PUBLIC_SUPABASE_URL", "SUPABASE_SERVICE_ROLE_KEY", "CLERK_SECRET_KEY",
      "NEXT_PUBLIC_CLERK_PUBLISHABLE_KEY", "CLERK_WEBHOOK_SECRET" }

\* every external call succeeds and every variable is set
Kind ==
    [npmFail |-> 0, cliAvail |-> TRUE, pushOk |-> TRUE, badPath |-> NoPath,
     vars |-> EnvNames, dbConnect |-> TRUE, dbFailAt |-> 0, dbEnd |-> TRUE,
     vault |-> TRUE]

\* one thing goes wrong: an npm call fails, the supabase CLI is missing or its
\* push fails, or one path cannot be written
Faulty ==
    { [Kind EXCEPT !.npmFail = n] : n \in 1..2 }
    \cup { [Kind EXCEPT !.cliAvail = FALSE], [Kind EXCEPT !.pushOk = FALSE] }
    \cup { [Kind EXCEPT !.badPath = p] :
             p \in {RootMiddleware, SbConfig, WebhookUtils, EnvPath, AppLayout} }

(***************************************************************************)
(* The state machine: the user runs `install` or `uninstall` with the      *)
(* flags of the session, one command after the other.                      *)
(***************************************************************************)
InitWith(projects, flags, worlds) ==
    /\ fs \in projects
    /\ opts \in flags
    /\ world \in worlds
    /\ hist = <<>>

\* projects and flags at large, every external call succeeding
Init ==
    InitWith(Projects({NextOnly, NoManifest, WithSupabase, WithClerk}, Layouts,
                      OwnSets(OwnFiles, MaxPre), {NoEnv, OwnEnv}),
             {o \in Flags : ~o.applyMigrations}, {Kind})

\* .env.local at large
InitEnv ==
    InitWith(Projects({NextOnly, NoManifest, WithClerk}, {{<<"app">>}}, {{}},
                      EnvFiles(OwnLines, MaxEnvLines)),
             {o \in Flags : o.skipDeps /\ ~o.applyMigrations /\ ~o.webhooks /\ ~o.force},
             {Kind})

\* the detector's markers at large
InitDetect ==
    InitWith(Projects({NextOnly, NoManifest, BadManifest, WithSupabase, WithClerk, NotNext},
                      {{<<"app">>}}, OwnSets(MarkerFiles, MaxPre),
                      EnvFiles(MarkerLines, MaxEnvLines)),
             {o \in Flags : /\ ~o.all /\ ~o.supabase /\ ~o.clerk /\ o.skipDeps /\ o.keepDeps
                            /\ ~o.applyMigrations /\ ~o.webhooks /\ ~o.force},
             {Kind})

\* external calls that fail
InitFail ==
    InitWith(Projects({NextOnly, BadManifest, WithClerk}, {{<<"app">>}, {<<"pages">>}},
                      OwnSets({<<AppLayout, UserText({"{children}"})>>}, MaxPre),
                      {NoEnv, OwnEnv}),
             {o \in Flags : ~o.force /\ ~(o.supabase /\ o.clerk)}, {Kind} \cup Faulty)

Install ==
    /\ Len(hist) < MaxRuns
    /\ LET out == InstallCommand(fs, opts, world)
       IN /\ fs' = out.post
          /\ hist' = Append(hist, out)
    /\ UNCHANGED <<opts, world>>

Uninstall ==
    /\ Len(hist) < MaxRuns
    /\ LET out == UninstallCommand(fs, opts, world)
       IN /\ fs' = out.post
          /\ hist' = Append(hist, out)
    /\ UNCHANGED <<opts, world>>

Next == Install \/ Uninstall

Spec == Init /\ [][Next]_vars

SpecEnv == InitEnv /\ [][Next]_vars

SpecDetect == InitDetect /\ [][Next]_vars

SpecFail == InitFail /\ [][Next]_vars

(***************************************************************************)
(* The enhanced command, run once or more on a project without the two     *)
(* services, with its options and a world in which one thing goes wrong.   *)
(***************************************************************************)
EnhancedOptions ==
    [ clerkWrapper : BOOLEAN, databaseIntegration : BOOLEAN, useVault : BOOLEAN,
      enableWebhooks : BOOLEAN, skipDeps : BOOLEAN, applyMigrations : BOOLEAN,
      tables : {"all", "selected", "excluded"} ]

\* a statement later than the last one of the longer session never fails
MaxQuery == 23

EnhancedWorlds ==
    { [Kind EXCEPT !.vars = v] : v \in SUBSET EnvNames }
    \cup { [Kind EXCEPT !.dbConnect = FALSE, !.dbEnd = e] : e \in BOOLEAN }
    \cup { [Kind EXCEPT !.dbFailAt = n, !.dbEnd = e] : n \in 1..MaxQuery, e \in BOOLEAN }
    \cup { [Kind EXCEPT !.dbEnd = FALSE], [Kind EXCEPT !.vault = FALSE] }
    \cup { [Kind EXCEPT !.npmFail = n] : n \in 1..2 }
    \cup { [Kind EXCEPT !.cliAvail = FALSE], [Kind EXCEPT !.pushOk = FALSE],
           [Kind EXCEPT !.badPath = SbConfig], [Kind EXCEPT !.badPath = WebhookUtils] }

InitEnhanced ==
    InitWith(Projects({NextOnly, WithClerk}, {{<<"app">>}}, {{}}, {NoEnv}),
             EnhancedOptions, EnhancedWorlds)

Enhanced ==
    /\ Len(hist) < MaxRuns
    /\ LET out == EnhancedCommand(fs, opts, world)
       IN /\ fs' = out.post
          /\ hist' = Append(hist, out)
    /\ UNCHANGED <<opts, world>>

NextEnhanced == Enhanced

SpecEnhanced == InitEnhanced /\ [][NextEnhanced]_vars

(***************************************************************************)
(* The enhanced script started from its command line, every external call  *)
(* succeeding.                                                             *)
(***************************************************************************)
MaxArgs == 4

Tokens ==
    { "--tables", "--exclude-tables", "--webhook-url", "--no-vault", "--help",
      "users,organizations", "" }

InitArgs ==
    InitWith(Projects({NextOnly}, {{<<"app">>}}, {{}}, {NoEnv}),
             { [argv |-> a] : a \in SeqsUpTo(Tokens, MaxArgs) }, {Kind})

Main ==
    /\ Len(hist) < MaxRuns
    /\ LET out == EnhancedMain(fs, opts.argv, world)
       IN /\ fs' = out.post
          /\ hist' = Append(hist, out)
    /\ UNCHANGED <<opts, world>>

NextArgs == Main

SpecArgs == InitArgs /\ [][NextArgs]_vars

(***************************************************************************)
(* Layout files at large: app/layout.tsx or pages/_app.tsx of the user's   *)
(* own, with and without the texts the provider step looks for.            *)
(***************************************************************************)
LayoutTexts ==
    { <<AppLayout, UserText(m)>> :
        m \in SUBSET {"{children}", "from '@/lib/clerk'", "ClerkProvider"} }
    \cup { <<PagesApp, UserText(m)>> :
        m \in SUBSET {"next/app", "<Component", "from '@/lib/clerk'",
                      "ClerkProviderWrapper"} }

InitLayout ==
    InitWith(Projects({NextOnly}, {{<<"app">>}, {<<"pages">>}},
                      OwnSets(LayoutTexts, MaxPre), {NoEnv}),
             {o \in Flags : /\ o.skipDeps /\ ~o.applyMigrations /\ ~o.webhooks
                            /\ ~(o.supabase /\ o.clerk)},
             {Kind})

SpecLayout == InitLayout /\ [][Next]_vars

(***************************************************************************)
(* Properties.  hist[k] records the k-th command: the directory before     *)
(* (pre) and after (post), what detection answered (setup), the steps      *)
(* entered, the paths written, the external calls that failed (ext) and    *)
(* the exit code.                                                          *)
(***************************************************************************)
Steps(r) == { r.steps[i] : i \in 1..Len(r.steps) }

Services == {"supabase", "clerk"}

Has(setup, service) ==
    IF service = "supabase" THEN setup.hasSupabase ELSE setup.hasClerk

WriterOf(service) == IF service = "supabase" THEN "setupSupabase" ELSE "setupClerk"

UninstallerOf(service) ==
    IF service = "supabase" THEN "uninstallSupabase" ELSE "uninstallClerk"

\* the files and directories of the project
Tree(f) == DOMAIN f.files \cup f.dirs

\* the lines of .env.local that are not blank
KeptLines(env) == NonBlank(IF env.exists THEN env.text ELSE EmptyText)

\* a successful install directly followed by another install
Reinstalls ==
    { k \in 1..(Len(hist) - 1) :
        /\ hist[k].cmd = "install" /\ hist[k].exit = 0
        /\ hist[k + 1].cmd = "install" }

\* the flags select the service alone
Only(service) ==
    /\ ~opts.all
    /\ IF service = "supabase" THEN opts.supabase /\ ~opts.clerk
                               ELSE opts.clerk /\ ~opts.supabase

\* the install step of the service on a project without it, directly followed
\* by the uninstall step of the service
RoundTrips(service) ==
    { k \in 1..(Len(hist) - 1) :
        /\ Only(service) /\ ~opts.webhooks
        /\ hist[k].cmd = "install" /\ hist[k].exit = 0
        /\ ~Has(hist[k].setup, service)
        /\ WriterOf(service) \in Steps(hist[k])
        /\ hist[k + 1].cmd = "uninstall" /\ hist[k + 1].exit = 0
        /\ UninstallerOf(service) \in Steps(hist[k + 1]) }

\* C1: without --force, an install that follows a successful install writes
\* no path that exists when it starts.
C1_SecondInstallLeavesPresentFilesUntouched ==
    ~opts.force =>
        \A k \in Reinstalls :
            hist[k + 1].written \cap AllPaths(hist[k + 1].pre) = {}

\* `install --supabase --webhooks` twice over a readable package.json: the
\* second run skips setupSupabase and writes the webhook route again
C1_WebhookRouteWrittenAgain ==
    \E k \in Reinstalls :
        /\ ~opts.force /\ opts.webhooks
        /\ ReadJsonOk(hist[k].pre)
        /\ hist[k + 1].exit = 0
        /\ "setupSupabase" \notin Steps(hist[k + 1])
        /\ WebhookSb \in DOMAIN hist[k + 1].pre.files
        /\ WebhookSb \in hist[k + 1].written

\* C2: install of one service on a project without it, then uninstall of the
\* service, leaves exactly the files and directories that were there before.
C2_UninstallRemovesExactlyWhatInstallCreated ==
    \A service \in Services :
        \A k \in RoundTrips(service) :
            Tree(hist[k + 1].post) = Tree(hist[k].pre)

\* after the Supabase round trip a file the install created is still there
\* and a file of the user's own is gone
C2_LeftoverAndCollateral ==
    \E k \in RoundTrips("supabase") :
        /\ ConnTestCmp \notin Tree(hist[k].pre)
        /\ ConnTestCmp \in Tree(hist[k + 1].post)
        /\ SbSeed \in Tree(hist[k].pre)
        /\ SbSeed \notin Tree(hist[k + 1].post)

\* C3: install of one service, then uninstall of it, leaves the non-blank
\* lines of .env.local as they were before the install.
C3_EnvRoundTripKeepsOtherLines ==
    \A service \in Services :
        \A k \in RoundTrips(service) :
            KeptLines(hist[k + 1].post.env) = KeptLines(hist[k].pre.env)

\* the user's DATABASE_URL line is gone and the block's comment line stays
C3_OwnLineStrippedCommentLeft ==
    \E k \in RoundTrips("supabase") :
        /\ hist[k].pre.env.exists
        /\ hist[k].pre.env.text = <<KV("DATABASE_URL", "postgres://own"), Blank>>
        /\ hist[k + 1].post.env.exists
        /\ hist[k + 1].post.env.text = <<Comment("# Supabase Configuration"), Blank>>

WebhookSecret(service) ==
    IF service = "supabase" THEN "SUPABASE_WEBHOOK_SECRET" ELSE "CLERK_WEBHOOK_SECRET"

ServiceVars(service) == IF service = "supabase" THEN supabaseVars ELSE clerkVars

IsSecretLine(line, service) ==
    line.kind = "kv" /\ ~line.pre /\ line.key = WebhookSecret(service)

\* a KEY=value line that belongs neither to the service nor to its webhook
Unrelated(line, service) ==
    /\ line.kind = "kv"
    /\ line.key \notin ServiceVars(service) \cup {WebhookSecret(service)}

LinesOf(env) ==
    IF env.exists THEN { env.text[i] : i \in 1..Len(env.text) } ELSE {}

\* the uninstall commands whose remove-configuration step for the service ran
\* to its end
Cleaned(service) ==
    { k \in 1..Len(hist) :
        /\ hist[k].cmd = "uninstall"
        /\ UninstallerOf(service) \in Steps(hist[k])
        /\ "env cleanup" \notin hist[k].ext }

\* C4: when .env.local holds the webhook-secret line of a service, the
\* remove-configuration step of that service removes the line and keeps every
\* unrelated line.
C4_WebhookSecretLineRemoved ==
    \A service \in Services :
        \A k \in Cleaned(service) :
            (\E l \in LinesOf(hist[k].pre.env) : IsSecretLine(l, service)) =>
                /\ \A l \in LinesOf(hist[k].post.env) : ~IsSecretLine(l, service)
                /\ \A l \in LinesOf(hist[k].pre.env) :
                       Unrelated(l, service) => l \in LinesOf(hist[k].post.env)

\* uninstallClerk has run and CLERK_WEBHOOK_SECRET=... is still in the file
C4_ClerkSecretLineSurvives ==
    \E k \in Cleaned("clerk") :
        /\ KV("CLERK_WEBHOOK_SECRET", "whsec_own") \in LinesOf(hist[k].pre.env)
        /\ KV("FOO", "bar") \in LinesOf(hist[k].pre.env)
        /\ KV("CLERK_WEBHOOK_SECRET", "whsec_own") \in LinesOf(hist[k].post.env)

\* one of the three kinds of marker of the service is in the directory
HasMarker(f, service) ==
    IF service = "supabase"
    THEN SupabasePkgMarker(f) \/ SupabaseFileMarker(f) \/ SupabaseEnvMarker(f)
    ELSE ClerkPkgMarker(f) \/ ClerkFileMarker(f) \/ ClerkEnvMarker(f)

\* C5: detection reports a service present exactly when the directory holds
\* a marker of it, whatever the state of package.json.
C5_DetectedIffMarker ==
    \A k \in 1..Len(hist) :
        \A service \in Services :
            Has(hist[k].setup, service) <=> HasMarker(hist[k].pre, service)

\* lib/supabase/client.ts imports @supabase/, package.json cannot be read,
\* and detection answers that Supabase is absent
C5_MarkerFileMissedWithoutManifest ==
    \E k \in 1..Len(hist) :
        /\ ~ReadJsonOk(hist[k].pre)
        /\ SupabaseFileMarker(hist[k].pre)
        /\ ~hist[k].setup.hasSupabase

DeclaresNext(f) == f.pkg.state = "ok" /\ "next" \in f.pkg.deps

\* C6: with `next` declared, a directory without app/ and pages/ is classified
\* 'nextjs' (the layout is not known) and a directory with app/ is classified
\* 'nextjs-app', whether or not pages/ is there too.
C6_LayoutClassification ==
    \A k \in 1..Len(hist) :
        DeclaresNext(hist[k].pre) =>
            /\ (<<"app">> \notin hist[k].pre.dirs /\ <<"pages">> \notin hist[k].pre.dirs)
                   => hist[k].setup.projectType = "nextjs"
            /\ <<"app">> \in hist[k].pre.dirs
                   => hist[k].setup.projectType = "nextjs-app"

\* a directory classified 'nextjs' gets app/ (and pages/) and is classified
\* 'nextjs-app' by the next command
C6_ReclassifiedAfterAppAdded ==
    \E k \in 1..(Len(hist) - 1) :
        /\ DeclaresNext(hist[k].pre) /\ DeclaresNext(hist[k + 1].pre)
        /\ <<"app">> \notin hist[k].pre.dirs
        /\ hist[k].setup.projectType = "nextjs"
        /\ <<"app">> \in hist[k + 1].pre.dirs
        /\ <<"pages">> \in hist[k + 1].pre.dirs
        /\ hist[k + 1].setup.projectType = "nextjs-app"

\* C7: `install --all --force` and `install --clerk --force` run the writer of
\* a service that is already detected and rewrite its configuration files.
C7_ForceRunsWriters ==
    \A k \in 1..Len(hist) :
        (hist[k].cmd = "install" /\ opts.force /\ hist[k].exit = 0) =>
            /\ ((opts.all \/ opts.clerk) /\ hist[k].setup.hasClerk)
                   => ("setupClerk" \in Steps(hist[k]) /\ ClerkConfig \in hist[k].written)
            /\ (opts.all /\ hist[k].setup.hasSupabase)
                   => ("setupSupabase" \in Steps(hist[k]) /\ SbClient \in hist[k].written)

\* `install --all --force` with both services detected ends with exit code 0
\* and has entered neither writer
C7_ForceAllRunsNoWriter ==
    \E k \in 1..Len(hist) :
        /\ hist[k].cmd = "install" /\ opts.force /\ opts.all /\ hist[k].exit = 0
        /\ hist[k].setup.hasSupabase /\ hist[k].setup.hasClerk
        /\ ~hist[k].early
        /\ Steps(hist[k]) \cap {"setupSupabase", "setupClerk"} = {}

\* C8: an install without --force leaves the content of every file that was
\* there before as it was (the layout files, which are patched, set aside).
C8_PresentFilesKeepContent ==
    \A k \in 1..Len(hist) :
        (hist[k].cmd = "install" /\ ~opts.force) =>
            \A p \in DOMAIN hist[k].pre.files \ {AppLayout, PagesApp} :
                /\ p \in DOMAIN hist[k].post.files
                /\ hist[k].post.files[p] = hist[k].pre.files[p]

\* the user's middleware.ts holds the Clerk template after `install --clerk`
C8_OwnMiddlewareOverwritten ==
    \E k \in 1..Len(hist) :
        /\ hist[k].cmd = "install" /\ ~opts.force /\ hist[k].exit = 0
        /\ RootMiddleware \in DOMAIN hist[k].pre.files
        /\ hist[k].pre.files[RootMiddleware] = UserText({})
        /\ hist[k].post.files[RootMiddleware].origin = "tmpl"

\* the external calls whose failure ends a command
Fatal == {"writer fs call", "npm install"}

\* the external calls whose failure is caught and reported as a warning
Tolerated == {"readJson", "readFile", "layout patch", "env cleanup", "layout cleanup",
              "npm uninstall", "supabase db push"}

SetupWriters == {"setupSupabase", "setupClerk", "setupWebhooks"}

\* C10: when a setup writer of install fails, it is the last step the command
\* entered, npm was not called and the exit code is 1; when no step fails the
\* exit code is 0.
C10_WriterFailureStopsInstall ==
    \A k \in 1..Len(hist) :
        hist[k].cmd = "install" =>
            /\ hist[k].failed \in SetupWriters =>
                   /\ hist[k].exit = 1
                   /\ hist[k].steps # <<>>
                   /\ hist[k].steps[Len(hist[k].steps)] = hist[k].failed
                   /\ hist[k].npm = <<>>
            /\ hist[k].failed = "none" => hist[k].exit = 0

\* `install --all --webhooks` where setupSupabase fails: the Clerk writer, the
\* webhooks and the dependencies were still due
C10_SupabaseWriterFailedFirst ==
    \E k \in 1..Len(hist) :
        /\ hist[k].cmd = "install" /\ opts.all /\ opts.webhooks /\ ~opts.skipDeps
        /\ ~hist[k].setup.hasSupabase /\ ~hist[k].setup.hasClerk
        /\ hist[k].failed = "setupSupabase"
        /\ hist[k].steps = <<"setupSupabase">>
        /\ hist[k].exit = 1

(***************************************************************************)
(* C11: detectExistingSetup never throws and never aborts a command: for   *)
(* every project (package.json missing or malformed, a marker file that    *)
(* cannot be read) it returns a ProjectSetup, each probe whose read fails  *)
(* answers false, and the project type is 'unknown' when package.json      *)
(* cannot be read.                                                         *)
(***************************************************************************)
ProjectSetup ==
    [ hasSupabase : BOOLEAN, hasClerk : BOOLEAN, hasNextAuth : BOOLEAN,
      projectType : {"nextjs", "nextjs-app", "nextjs-pages", "unknown"} ]

C11_DetectionNeverThrows ==
    \A k \in 1..Len(hist) :
        LET r == hist[k]
            f == hist[k].pre
        IN  /\ r.setup \in ProjectSetup
            /\ r.failed # "detectExistingSetup"
            /\ ThrowingProbes(f) # {} /\ world = Kind => r.exit = 0
            /\ ~ReadJsonOk(f) => r.setup.projectType = "unknown"
            /\ "detectSupabase" \in ThrowingProbes(f) => ~r.setup.hasSupabase
            /\ "detectClerk" \in ThrowingProbes(f) => ~r.setup.hasClerk
            /\ "detectNextAuth" \in ThrowingProbes(f) => ~r.setup.hasNextAuth

\* a command ran to its end on a project whose manifest is fine and whose
\* Supabase marker file could not be read
C11_UnreadableMarkerFileSurvived ==
    \E k \in 1..Len(hist) :
        /\ ReadJsonOk(hist[k].pre)
        /\ "detectSupabase" \in ThrowingProbes(hist[k].pre)
        /\ "readFile" \in hist[k].ext
        /\ ~hist[k].setup.hasSupabase
        /\ hist[k].exit = 0

(***************************************************************************)
(* C12: the sign-in and sign-up pages follow the detected layout: for      *)
(* 'nextjs-app' setupClerk writes the two pages under app/ and nothing     *)
(* under pages/sign-in or pages/sign-up; for the pages layout it writes    *)
(* the two pages under pages/ and creates nothing under app/sign-in or     *)
(* app/sign-up.                                                            *)
(***************************************************************************)
Under(dir, paths) == { p \in paths : IsPrefix(dir, p) }

\* the files and directories a command added
Created(r) == Tree(r.post) \ Tree(r.pre)

C12_AuthPagesFollowLayout ==
    \A k \in 1..Len(hist) :
        LET r == hist[k]
            touched == Created(hist[k]) \cup hist[k].written
        IN  r.cmd = "install" /\ "setupClerk" \in Steps(r) /\ r.exit = 0 =>
              /\ r.setup.projectType = "nextjs-app" =>
                    /\ {AppSignIn, AppSignUp} \subseteq r.written
                    /\ Under(<<"pages", "sign-in">>, touched) = {}
                    /\ Under(<<"pages", "sign-up">>, touched) = {}
              /\ r.setup.projectType = "nextjs-pages" =>
                    /\ {PagesSignIn, PagesSignUp} \subseteq r.written
                    /\ Under(<<"app", "sign-in">>, touched) = {}
                    /\ Under(<<"app", "sign-up">>, touched) = {}

\* an install on a pages project left directories under app/sign-in and
\* app/sign-up behind
C12_AppDirsCreatedOnPagesProject ==
    \E k \in 1..Len(hist) :
        /\ hist[k].cmd = "install" /\ hist[k].exit = 0
        /\ "setupClerk" \in Steps(hist[k])
        /\ hist[k].setup.projectType = "nextjs-pages"
        /\ {PagesSignIn, PagesSignUp} \subseteq hist[k].written
        /\ <<"app">> \notin hist[k].pre.dirs
        /\ <<"app", "sign-in", "[[...sign-in]]">> \in hist[k].post.dirs
        /\ <<"app", "sign-up", "[[...sign-up]]">> \in hist[k].post.dirs

(***************************************************************************)
(* C13: service selection by flag: with --supabase alone the command       *)
(* never invokes the Clerk writer (or uninstaller) and names no Clerk      *)
(* package to npm, and the same with the services exchanged; with --all or *)
(* with no service flag `install` sets up every service not yet detected   *)
(* and `uninstall` removes every service detected.                         *)
(***************************************************************************)
Other(service) == IF service = "supabase" THEN "clerk" ELSE "supabase"

PackagesOf(service) ==
    IF service = "supabase" THEN {"@supabase/supabase-js", "@supabase/ssr"}
                            ELSE {"@clerk/nextjs", "@clerk/clerk-js"}

\* the packages named to the package manager by the command
Requested(r) == UNION { r.npm[i].names : i \in 1..Len(r.npm) }

\* --all, or no service flag at all
Everything == opts.all \/ (~opts.supabase /\ ~opts.clerk)

C13_SelectionByFlag ==
    \A k \in 1..Len(hist) : \A s \in Services :
        LET r == hist[k]
        IN  /\ Only(s) =>
                /\ WriterOf(Other(s)) \notin Steps(r)
                /\ UninstallerOf(Other(s)) \notin Steps(r)
                /\ Requested(r) \cap PackagesOf(Other(s)) = {}
            /\ Everything /\ r.exit = 0 /\ r.cmd = "install" /\ ~Has(r.setup, s)
                  => WriterOf(s) \in Steps(r)
            /\ Everything /\ r.exit = 0 /\ r.cmd = "uninstall" /\ Has(r.setup, s)
                  => UninstallerOf(s) \in Steps(r)

\* `install --supabase` on a project with neither service: Supabase was set
\* up, npm was called, and Clerk was left alone
C13_SupabaseAloneInstalled ==
    \E k \in 1..Len(hist) :
        /\ Only("supabase") /\ hist[k].cmd = "install" /\ hist[k].exit = 0
        /\ ~hist[k].setup.hasSupabase /\ ~hist[k].setup.hasClerk
        /\ "setupSupabase" \in Steps(hist[k])
        /\ "setupClerk" \notin Steps(hist[k])
        /\ "@supabase/ssr" \in Requested(hist[k])

(***************************************************************************)
(* C14: when both services are detected and --force is absent, `install    *)
(* --supabase` and `install --clerk` proceed past the already-configured   *)
(* check instead of returning at once (the message of that check tells the *)
(* user to 'specify individual services').                                 *)
(***************************************************************************)
C14_ServiceFlagPassesConfiguredCheck ==
    \A k \in 1..Len(hist) :
        /\ hist[k].cmd = "install"
        /\ hist[k].setup.hasSupabase /\ hist[k].setup.hasClerk
        /\ ~opts.force
        /\ opts.supabase \/ opts.clerk
        => ~hist[k].early

\* `install --clerk` on a project with both services returned at the check:
\* no step ran and the project is as it was
C14_ReturnedAtConfiguredCheck ==
    \E k \in 1..Len(hist) :
        /\ hist[k].cmd = "install"
        /\ hist[k].setup.hasSupabase /\ hist[k].setup.hasClerk
        /\ ~opts.force /\ Only("clerk")
        /\ hist[k].early /\ hist[k].steps = <<>>
        /\ hist[k].post = hist[k].pre /\ hist[k].exit = 0

(***************************************************************************)
(* C15: on a project where one service is detected and the other is not,   *)
(* `install` with no service flag or with the flag of the missing service  *)
(* adds the missing one without touching the detected one: the detected    *)
(* service's writer is not invoked, no file of its own directories is      *)
(* written, created or removed, and the lines .env.local had are all still *)
(* there, in place.                                                        *)
(***************************************************************************)
\* the directories and files that belong to a service
Territory(service) ==
    IF service = "supabase"
    THEN { <<"lib", "supabase">>, <<"supabase">>, <<"types">> }
    ELSE { ClerkConfig, ClerkLegacy, RootMiddleware, <<"app", "sign-in">>,
           <<"app", "sign-up">>, <<"pages", "sign-in">>, <<"pages", "sign-up">> }

\* the paths the command wrote, created or removed
Touched(r) ==
    r.written \cup (Tree(r.post) \ Tree(r.pre)) \cup (Tree(r.pre) \ Tree(r.post))

\* the flags name the service alone, or name no service
AddsMissing(service) ==
    ~opts.all /\ ~(IF service = "supabase" THEN opts.clerk ELSE opts.supabase)

C15_AddsMissingServiceOnly ==
    \A k \in 1..Len(hist) : \A s \in Services :
        LET r == hist[k]
        IN  /\ r.cmd = "install" /\ r.exit = 0
            /\ Has(r.setup, Other(s)) /\ ~Has(r.setup, s)
            /\ AddsMissing(s)
            =>  /\ WriterOf(s) \in Steps(r)
                /\ WriterOf(Other(s)) \notin Steps(r)
                /\ \A d \in Territory(Other(s)) : Under(d, Touched(r)) = {}
                /\ r.pre.env.exists =>
                      r.post.env.exists /\ IsPrefix(r.pre.env.text, r.post.env.text)

\* Clerk was added to a Supabase project that had lines in .env.local
C15_ClerkAddedToSupabaseProject ==
    \E k \in 1..Len(hist) :
        /\ hist[k].cmd = "install" /\ hist[k].exit = 0
        /\ hist[k].setup.hasSupabase /\ ~hist[k].setup.hasClerk
        /\ AddsMissing("clerk")
        /\ "setupClerk" \in Steps(hist[k])
        /\ ClerkConfig \in hist[k].written
        /\ hist[k].pre.env.exists /\ Len(hist[k].pre.env.text) > 0
        /\ Len(hist[k].post.env.text) > Len(hist[k].pre.env.text)

(***************************************************************************)
(* C16: installDependencies builds its package lists from the requested    *)
(* integrations and calls the package manager at most once for the runtime *)
(* packages and at most once for the dev packages, runtime first; when the *)
(* runtime call fails the dev call is not attempted and the error is       *)
(* rethrown; when both lists are empty no package manager is started.      *)
(***************************************************************************)
\* the calls of the command with the given npm command line
Calls(r, cmd) == { i \in 1..Len(r.npm) : r.npm[i].cmd = cmd }

\* installDependencies was asked for the service and the service is new
Asked(r, service) ==
    /\ ~Has(r.setup, service)
    /\ IF service = "supabase" THEN WantsSupabase(opts, r.setup)
                                ELSE WantsClerk(opts, r.setup)

C16_PackageManagerCalls ==
    \A k \in 1..Len(hist) :
        LET r == hist[k]
            runtime == Calls(hist[k], "npm install")
            dev == Calls(hist[k], "npm install --save-dev")
        IN  r.cmd = "install" /\ "installDependencies" \in Steps(r) =>
              /\ Cardinality(runtime) <= 1 /\ Cardinality(dev) <= 1
              /\ runtime \cup dev = 1..Len(r.npm)
              /\ \A i \in runtime : \A j \in dev : i < j
              /\ \A i \in 1..Len(r.npm) : r.npm[i].names # {}
              /\ \A s \in Services :
                    /\ Asked(r, s) => PackagesOf(s) \cap Requested(r) # {}
                    /\ ~Asked(r, s) => PackagesOf(s) \cap Requested(r) = {}
              /\ dev # {} => Asked(r, "supabase")
              /\ Asked(r, "supabase") /\ NpmWorks(r.pre, world, 1) => dev # {}
              /\ ~Asked(r, "supabase") /\ ~Asked(r, "clerk") => r.npm = << >>
              /\ runtime # {} /\ ~NpmWorks(r.pre, world, 1) =>
                    /\ dev = {}
                    /\ r.exit = 1 /\ r.failed = "installDependencies"

\* the runtime call failed on an install that also had dev packages to add
C16_RuntimeCallFailedDevSkipped ==
    \E k \in 1..Len(hist) :
        /\ hist[k].cmd = "install"
        /\ Asked(hist[k], "supabase")
        /\ ~NpmWorks(hist[k].pre, world, 1)
        /\ Len(hist[k].npm) = 1 /\ hist[k].npm[1].cmd = "npm install"
        /\ hist[k].failed = "installDependencies" /\ hist[k].exit = 1

(***************************************************************************)
(* C17: the append to .env.local keeps what was there and is idempotent:   *)
(* for any content of the file, updateEnvironmentVariables for a service   *)
(* leaves the prior content as an unchanged prefix, appends the service's  *)
(* block only when the service's key name is not yet in the file, and      *)
(* applied again (and again) gives the same file as applied once.          *)
(***************************************************************************)
\* the name updateEnvironmentVariables looks for
KeyName(service) ==
    IF service = "supabase" THEN "NEXT_PUBLIC_SUPABASE_URL"
                            ELSE "NEXT_PUBLIC_CLERK_PUBLISHABLE_KEY"

\* the text fs.readFile gives, '' for a file that is not there
EnvText(f) == IF f.env.exists THEN f.env.text ELSE EmptyText

\* updateEnvironmentVariables n times on f
RECURSIVE Updated(_, _, _)
Updated(f, service, n) ==
    IF n = 0 THEN f
    ELSE updateEnvironmentVariables(Updated(f, service, n - 1), Kind, service).fs

C17_EnvAppendKeepsPrefixAndIsIdempotent ==
    /\ \A s \in Services :
          LET once == Updated(fs, s, 1)
              block == IF s = "supabase" THEN supabaseEnvVars ELSE clerkEnvVars
          IN  /\ once.env.exists
              /\ IsPrefix(EnvText(fs), once.env.text)
              /\ TextIncludes(EnvText(fs), KeyName(s)) => once.env.text = EnvText(fs)
              /\ ~TextIncludes(EnvText(fs), KeyName(s)) =>
                    /\ Len(once.env.text) = Len(EnvText(fs)) + Len(block) - 1
                    /\ \A i \in 2..Len(block) :
                          once.env.text[Len(EnvText(fs)) + i - 1] = block[i]
              /\ Updated(fs, s, 2) = once
              /\ Updated(fs, s, 3) = once
    /\ \A k \in 1..Len(hist) : \A s \in Services :
          hist[k].cmd = "install" /\ WriterOf(s) \in Steps(hist[k]) /\ hist[k].exit = 0
          /\ Steps(hist[k]) \cap SetupWriters = {WriterOf(s)}
          => hist[k].post.env = Updated(hist[k].pre, s, 1).env

\* setupSupabase appended its block to a file that had lines of its own
C17_BlockAppendedToOwnLines ==
    \E k \in 1..Len(hist) :
        /\ hist[k].cmd = "install" /\ "setupSupabase" \in Steps(hist[k])
        /\ hist[k].pre.env.exists
        /\ \E i \in 1..Len(hist[k].pre.env.text) : hist[k].pre.env.text[i].kind = "kv"
        /\ ~TextIncludes(hist[k].pre.env.text, "NEXT_PUBLIC_SUPABASE_URL")
        /\ hist[k].post.env.text # hist[k].pre.env.text
        /\ IsPrefix(hist[k].pre.env.text, hist[k].post.env.text)
        /\ fs = hist[k].post

(***************************************************************************)
(* C18: the enhanced command validates its environment before any side     *)
(* effect: when a required variable is missing (NEXT_PUBLIC_SUPABASE_URL   *)
(* or SUPABASE_SERVICE_ROLE_KEY always, CLERK_SECRET_KEY with the wrapper  *)
(* enabled, NEXT_PUBLIC_CLERK_PUBLISHABLE_KEY with the database            *)
(* integration enabled) the process exits with code 1 and no file was      *)
(* written, no database connection opened and no package installed; a      *)
(* missing CLERK_WEBHOOK_SECRET alone never aborts.                        *)
(***************************************************************************)
RequiredVars ==
    { "NEXT_PUBLIC_SUPABASE_URL", "SUPABASE_SERVICE_ROLE_KEY" }
    \cup (IF opts.clerkWrapper THEN {"CLERK_SECRET_KEY"} ELSE {})
    \cup (IF opts.databaseIntegration THEN {"NEXT_PUBLIC_CLERK_PUBLISHABLE_KEY"} ELSE {})

C18_ValidationBeforeSideEffects ==
    \A k \in 1..Len(hist) :
        LET r == hist[k]
            missing == RequiredVars \ ProcessEnv(hist[k].pre, world)
        IN  /\ missing # {} =>
                /\ r.exit = 1 /\ r.failed = "validateEnvironment"
                /\ r.steps = << "validateEnvironment" >>
                /\ r.post = r.pre /\ r.written = {}
                /\ r.db = << >> /\ r.npm = << >>
            /\ missing = {} => r.failed # "validateEnvironment" /\ Len(r.steps) > 1

\* the service role key was missing and the command stopped at validation
C18_StoppedAtValidation ==
    \E k \in 1..Len(hist) :
        /\ "SUPABASE_SERVICE_ROLE_KEY" \notin ProcessEnv(hist[k].pre, world)
        /\ "NEXT_PUBLIC_SUPABASE_URL" \in ProcessEnv(hist[k].pre, world)
        /\ hist[k].exit = 1 /\ hist[k].steps = << "validateEnvironment" >>
        /\ hist[k].post = hist[k].pre

(***************************************************************************)
(* C19: run executes its steps strictly in the order validate environment, *)
(* basic configuration, Clerk wrapper, database integration, dependency    *)
(* installation, migration apply; a disabled step is skipped and the       *)
(* others keep their order; when a step throws none of the following is    *)
(* executed and the process exits with code 1.                             *)
(***************************************************************************)
\* the steps the options enable, in the order of the claim
EnabledSteps ==
    << "validateEnvironment", "setupBasicConfiguration" >>
    \o (IF opts.clerkWrapper THEN << "setupClerkWrapper" >> ELSE << >>)
    \o (IF opts.databaseIntegration THEN << "setupDatabaseIntegration" >> ELSE << >>)
    \o (IF ~opts.skipDeps THEN << "installDependencies" >> ELSE << >>)
    \o (IF opts.applyMigrations THEN << "applyMigrations" >> ELSE << >>)

\* the step a session belongs to
StepOf(who) ==
    IF who = "ClerkWrapperSetup" THEN "setupClerkWrapper" ELSE "setupDatabaseIntegration"

C19_StepsInOrderUntilFirstThrow ==
    \A k \in 1..Len(hist) :
        LET r == hist[k]
        IN  /\ IsPrefix(r.steps, EnabledSteps)
            /\ r.failed = "none" <=> r.exit = 0
            /\ r.exit = 0 => r.steps = EnabledSteps
            /\ r.exit # 0 => r.exit = 1 /\ r.steps[Len(r.steps)] = r.failed
            /\ \A i \in 1..Len(r.db) :
                  ~r.db[i].ok =>
                      /\ i = Len(r.db)
                      /\ r.failed = StepOf(r.db[i].who) /\ r.exit = 1
            /\ "writer fs call" \in r.ext =>
                  r.failed = "setupBasicConfiguration" /\ r.exit = 1
            /\ "npm install" \in r.ext =>
                  r.failed = "installDependencies" /\ r.exit = 1

\* the wrapper step threw with the integration, the dependencies and the
\* migrations still to come
C19_WrapperThrewRestSkipped ==
    \E k \in 1..Len(hist) :
        /\ opts.clerkWrapper /\ opts.databaseIntegration
        /\ ~opts.skipDeps /\ opts.applyMigrations
        /\ hist[k].failed = "setupClerkWrapper" /\ hist[k].exit = 1
        /\ hist[k].steps = << "validateEnvironment", "setupBasicConfiguration",
                              "setupClerkWrapper" >>
        /\ hist[k].npm = << >>

(***************************************************************************)
(* C20: ClerkWrapperSetup.setup and DatabaseIntegrationSetup.setup release *)
(* the database client on every path: disconnect is called exactly once    *)
(* per setup call, whether every step succeeded, a statement failed midway *)
(* or connect itself failed, and the caller observes the original failure, *)
(* not an error of the disconnect.                                         *)
(***************************************************************************)
\* the methods whose failing statement is caught inside setup
CaughtInside ==
    { "storeClerkCredentials", "listAvailableTables", "createProfilesPolicies",
      "createTasksPolicies", "verifySetup" }

\* the calls of the session that threw out of the try block
Thrown(s) ==
    { j \in 1..Len(s.calls) :
        /\ ~s.calls[j].ok
        /\ s.calls[j].call \notin CaughtInside \cup {"end"} }

\* the database sessions of all commands run so far
Sessions == UNION { { hist[k].db[i] : i \in 1..Len(hist[k].db) } : k \in 1..Len(hist) }

\* disconnect is the last call of the session and the only one
DisconnectsOnce(s) ==
    /\ s.calls[1].call = "connect"
    /\ s.calls[Len(s.calls)].call = "end"
    /\ \A j \in 1..(Len(s.calls) - 1) : s.calls[j].call # "end"

C20_ClientReleasedOriginalFailureSeen ==
    \A s \in Sessions :
        /\ DisconnectsOnce(s)
        /\ \A j \in Thrown(s) : s.error = s.calls[j].call
        /\ Thrown(s) = {} /\ s.calls[Len(s.calls)].ok => s.ok

\* connect failed, disconnect was called once and failed too, and the caller
\* was handed the error of the disconnect
C20_DisconnectErrorHidesConnectError ==
    \E s \in Sessions :
        /\ DisconnectsOnce(s)
        /\ Len(s.calls) = 2
        /\ ~s.calls[1].ok /\ ~s.calls[2].ok
        /\ s.error = "end"

(***************************************************************************)
(* C21: ClerkWrapperSetup.setup creates the Clerk server in exactly one of *)
(* two ways: with Vault if and only if useVault is not false and storing   *)
(* the key in Vault succeeded and returned a key id; a Vault failure never *)
(* aborts the setup but falls back to the direct API key; with useVault    *)
(* false Vault is never contacted.                                         *)
(***************************************************************************)
\* the positions of the method in the session
CallsOf(s, name) == { j \in 1..Len(s.calls) : s.calls[j].call = name }

WrapperSessions == { s \in Sessions : s.who = "ClerkWrapperSetup" }

\* connect and the two statements before the Vault step went through
ReachedVaultStep(s) == Len(s.calls) > 3 /\ \A j \in 1..3 : s.calls[j].ok

C21_OneServerVariantVaultFallsBack ==
    \A s \in WrapperSessions :
        LET withVault == CallsOf(s, "createClerkServerWithVault")
            without == CallsOf(s, "createClerkServerWithoutVault")
            store == CallsOf(s, "storeClerkCredentials")
        IN  /\ Cardinality(withVault) + Cardinality(without) <= 1
            /\ ReachedVaultStep(s) => Cardinality(withVault) + Cardinality(without) = 1
            /\ ReachedVaultStep(s) =>
                  (withVault # {} <=>
                     /\ opts.useVault
                     /\ \E j \in store : s.calls[j].ok
                     /\ world.vault)
            /\ ~opts.useVault => store = {}
            /\ opts.useVault /\ ReachedVaultStep(s) => Cardinality(store) = 1
            /\ \A j \in store : \A i \in withVault \cup without : j < i
            /\ \A j \in store : ~s.calls[j].ok => without # {} /\ s.error # "storeClerkCredentials"

\* storing the key in Vault failed and the server was created with the key
\* itself; the setup went on to its end
C21_VaultFailedFellBack ==
    \E s \in WrapperSessions :
        /\ opts.useVault
        /\ \E j \in CallsOf(s, "storeClerkCredentials") : ~s.calls[j].ok
        /\ CallsOf(s, "createClerkServerWithoutVault") # {}
        /\ CallsOf(s, "createClerkServerWithVault") = {}
        /\ s.ok

(***************************************************************************)
(* C22: in DatabaseIntegrationSetup.setup a failing CREATE POLICY          *)
(* statement is tolerated: the remaining policies and all later steps      *)
(* still run and setup can succeed; a failure of any other statement       *)
(* (table creation, enabling RLS, webhook function, table or trigger,      *)
(* index creation) aborts the setup: no later step runs and the error is   *)
(* rethrown.                                                               *)
(***************************************************************************)
IntegrationSessions == { s \in Sessions : s.who = "DatabaseIntegrationSetup" }

PolicyMethods == { "createProfilesPolicies", "createTasksPolicies" }

AbortingMethods ==
    { "createProfilesTable", "createTasksTable", "enableRLS", "createWebhookFunction",
      "createWebhookTable", "createWebhookTrigger", "createIndexes" }

\* what setup issues when nothing stops it: 2 tables, 2 RLS, 7 policies,
\* 3 webhook statements when enabled, 5 indexes, 3 checks, between connect
\* and end
FullLength == IF opts.enableWebhooks THEN 24 ELSE 21

ValueFlags == { "--tables", "--exclude-tables", "--webhook-url" }

\* the argument at position i is the value of the flag before it
RECURSIVE IsValue(_, _)
IsValue(args, i) ==
    /\ i > 1
    /\ args[i - 1] \in ValueFlags
    /\ ~IsValue(args, i - 1)

\* the value given to the flag by its last use before any --help, << >> when
\* the flag was not given a value
RECURSIVE Given(_, _, _)
Given(args, flag, i) ==
    IF i = 0 THEN << >>
    ELSE IF IsValue(args, i) /\ args[i - 1] = flag
              /\ \A h \in 1..i : args[h] = "--help" => IsValue(args, h)
    THEN << args[i] >>
    ELSE Given(args, flag, i - 1)

ImportMethods == { "importSelectedTables", "importTablesExcept", "importAllTables" }

C23_OneImportByGivenLists ==
    /\ \A s \in WrapperSessions :
          LET sel == Given(opts.argv, "--tables", Len(opts.argv))
              exc == Given(opts.argv, "--exclude-tables", Len(opts.argv))
              imports == UNION { CallsOf(s, m) : m \in ImportMethods }
          IN  s.ok =>
                /\ Cardinality(imports) = 1
                /\ sel # << >> => CallsOf(s, "importSelectedTables") # {}
                /\ sel = << >> /\ exc # << >> => CallsOf(s, "importTablesExcept") # {}
                /\ sel = << >> /\ exc = << >> => CallsOf(s, "importAllTables") # {}
    /\ LET n == Len(opts.argv)
       IN  n > 0 /\ opts.argv[n] \in ValueFlags /\ ~IsValue(opts.argv, n) =>
             /\ parseArgs(opts.argv) = parseArgs(SubSeq(opts.argv, 1, n - 1))
             /\ \A k \in 1..Len(hist) :
                   hist[k] = EnhancedMain(hist[k].pre, SubSeq(opts.argv, 1, n - 1), world)

\* both lists were given and the import was limited to the selected tables
C23_BothGivenSelectedWins ==
    \E s \in WrapperSessions :
        /\ Given(opts.argv, "--tables", Len(opts.argv)) # << >>
        /\ Given(opts.argv, "--exclude-tables", Len(opts.argv)) # << >>
        /\ CallsOf(s, "importSelectedTables") # {}
        /\ CallsOf(s, "importTablesExcept") = {}
        /\ s.ok

(***************************************************************************)
(* C24: provider wrapping is idempotent: updateExistingLayout and          *)
(* updateExistingPagesApp leave a file that already mentions ClerkProvider *)
(* or ClerkProviderWrapper unchanged, so the Clerk provider step applied   *)
(* twice to any app/layout.tsx or pages/_app.tsx gives the same content as *)
(* applied once: no second import, no nested wrapper.                      *)
(***************************************************************************)
LayoutOf(projectType) == IF projectType = "nextjs-app" THEN AppLayout ELSE PagesApp

MentionsProvider(content) ==
    Includes(content, "ClerkProvider") \/ Includes(content, "ClerkProviderWrapper")

\* the provider step n times on f
RECURSIVE Wrapped(_, _, _)
Wrapped(f, projectType, n) ==
    IF n = 0 THEN f
    ELSE createClerkProvider(Wrapped(f, projectType, n - 1), Kind, projectType).fs

C24_ProviderWrappingIdempotent ==
    /\ \A pt \in {"nextjs-app", "nextjs-pages"} :
          LET p == LayoutOf(pt)
              once == Wrapped(fs, pt, 1)
          IN  /\ Wrapped(fs, pt, 2) = once
              /\ p \in DOMAIN fs.files /\ MentionsProvider(fs.files[p]) => once = fs
              /\ p \in DOMAIN fs.files /\ p \in DOMAIN once.files =>
                    /\ once.files[p].imp <= fs.files[p].imp + 1
                    /\ once.files[p].wrap <= fs.files[p].wrap + 1
    /\ \A k \in 1..Len(hist) :
          LET r == hist[k]
              p == LayoutOf(hist[k].setup.projectType)
          IN  r.cmd = "install" /\ "setupClerk" \in Steps(r) /\ r.exit = 0
              /\ p \in DOMAIN r.pre.files
              => r.post.files[p] = Wrapped(r.pre, r.setup.projectType, 1).files[p]

\* install wrapped the {children} of the user's own layout, and the file the
\* project has now is that one
C24_OwnLayoutWrappedOnce ==
    \E k \in 1..Len(hist) :
        /\ hist[k].cmd = "install" /\ "setupClerk" \in Steps(hist[k])
        /\ AppLayout \in DOMAIN hist[k].pre.files
        /\ ~MentionsProvider(hist[k].pre.files[AppLayout])
        /\ Includes(hist[k].pre.files[AppLayout], "{children}")
        /\ hist[k].post.files[AppLayout].wrap = 1
        /\ hist[k].post.files[AppLayout].imp = 1
        /\ fs = hist[k].post

(***************************************************************************)
(* C25: install establishes what detection checks: whenever setupSupabase  *)
(* (resp. setupClerk) has completed successfully, detectExistingSetup      *)
(* afterwards reports hasSupabase (resp. hasClerk) true, so that the next  *)
(* install without --force does not run that writer again.                 *)
(***************************************************************************)
\* the writer of the service ran in r and returned without throwing
WriterCompleted(r, service) ==
    /\ r.cmd = "install"
    /\ WriterOf(service) \in Steps(r)
    /\ r.failed # WriterOf(service)

C25_InstallEstablishesDetection ==
    \A k \in 1..Len(hist) :
        \A service \in Services :
            WriterCompleted(hist[k], service) /\ hist[k].exit = 0
            => Has(detectExistingSetup(hist[k].post), service)

\* package.json cannot be read, install --skip-deps ran the Supabase writer
\* and finished with exit code 0, detection still answers that Supabase is
\* absent, and the next install runs the writer again
C25_WriterRanTwiceWithoutManifest ==
    /\ Len(hist) = 2
    /\ ~ReadJsonOk(hist[1].pre)
    /\ WriterCompleted(hist[1], "supabase") /\ hist[1].exit = 0
    /\ ~detectExistingSetup(hist[1].post).hasSupabase
    /\ ~opts.force
    /\ WriterCompleted(hist[2], "supabase")

(***************************************************************************)
(* C26: uninstall clears what detection checks: after `uninstall` of a     *)
(* service has completed successfully (for every flag combination,         *)
(* --keep-deps included, and whether or not the package-manager call       *)
(* succeeded), detectExistingSetup reports that service as absent.         *)
(***************************************************************************)
\* the uninstaller of the service ran in r and the command ended with exit
\* code 0
Uninstalled(r, service) ==
    /\ r.cmd = "uninstall"
    /\ UninstallerOf(service) \in Steps(r)
    /\ r.exit = 0

C26_UninstallClearsDetection ==
    \A k \in 1..Len(hist) :
        \A service \in Services :
            Uninstalled(hist[k], service)
            => ~Has(detectExistingSetup(hist[k].post), service)

\* `uninstall --keep-deps` removed the files and the .env.local lines of
\* Supabase, package.json still lists its packages, and detection still
\* answers that Supabase is present
C26_KeptPackagesStillDetected ==
    \E k \in 1..Len(hist) :
        /\ Uninstalled(hist[k], "supabase")
        /\ opts.keepDeps
        /\ ~SupabaseFileMarker(hist[k].post)
        /\ ~SupabaseEnvMarker(hist[k].post)
        /\ SupabasePkgMarker(hist[k].post)
        /\ detectExistingSetup(hist[k].post).hasSupabase

(***************************************************************************)
(* C27: running the setup writers does not change the project-layout       *)
(* classification: for a project classified 'nextjs-pages' or 'nextjs'     *)
(* before `install`, detectProjectType returns the same classification     *)
(* after setupSupabase and/or setupClerk have run, so that a later run     *)
(* generates files for the same layout variant.                            *)
(***************************************************************************)
C27_WritersKeepClassification ==
    \A k \in 1..Len(hist) :
        /\ \E service \in Services : WriterCompleted(hist[k], service)
        /\ hist[k].setup.projectType \in {"nextjs-pages", "nextjs"}
        => detectProjectType(hist[k].post) = hist[k].setup.projectType

\* a pages-router project on which `install --clerk` ran only the Clerk
\* writer: app/sign-in was created, and the next command classifies the
\* project as 'nextjs-app'
C27_PagesProjectBecameAppProject ==
    /\ Len(hist) = 2
    /\ hist[1].setup.projectType = "nextjs-pages"
    /\ <<"app">> \notin hist[1].pre.dirs
    /\ WriterCompleted(hist[1], "clerk")
    /\ "setupSupabase" \notin Steps(hist[1])
    /\ hist[1].exit = 0
    /\ <<"app", "sign-in">> \in hist[1].post.dirs
    /\ detectProjectType(hist[1].post) = "nextjs-app"
    /\ hist[2].setup.projectType = "nextjs-app"
====
